---------------------------- MODULE Spec2Model ----------------------------
(***************************************************************************)
(* Drum boiler digital twin (backend/boiler_physics.py, backend/main.py).  *)
(*                                                                         *)
(* Numbers.  The program computes with floats.  Here every percentage,     *)
(* pressure (MPa) and temperature (deg C) is a fixed-point integer counting*)
(* units of 1/U, U = 10^Decimals.  Decimals grows with the number of ticks *)
(* a behaviour may take, so that on the inputs the specifications draw     *)
(* every product and quotient of update() is exact: the model computes the *)
(* real-number value of each expression and adds no rounding of its own    *)
(* (the float error of the program, about 1e-12 here, is not modelled).    *)
(* Rates (0.5, 1.0, 0.1) are kept in tenths; elapsed time is counted in    *)
(* tenths of a second, so UPDATE_INTERVAL = 0.1 s is 1.                    *)
(*                                                                         *)
(* Time.  update() reads the wall clock; `elapsed` is the time since       *)
(* last_update_time, and every call carries the value of that difference   *)
(* at the moment it is made (never less than `elapsed`).                   *)
(*                                                                         *)
(* Six specifications share the definitions of the boiler object:          *)
(*   Spec          the service of main.py (startup, /simulate, /reset,     *)
(*                 /state) around the global physics_engine, one handler   *)
(*                 per step;                                               *)
(*   SpecPhysics   a DrumBoilerPhysics object built with caller-chosen     *)
(*                 values and driven directly (update, reset, get_state);  *)
(*   SpecFloat     the same service, its forecasts holding nan or infinite *)
(*                 values;                                                 *)
(*   SpecTicks     one object ticked once per nominal interval, for more   *)
(*                 ticks than the history holds;                           *)
(*   SpecForecast  create_input_sequence and iterative_forecast, one loop  *)
(*                 pass per step;                                          *)
(*   SpecServer    the handlers of /simulate and /state as tasks of the    *)
(*                 event loop, one statement per step.                     *)
(***************************************************************************)
EXTENDS Integers, Sequences, FiniteSets, TLC

VARIABLES
    physics_engine,   \* the DrumBoilerPhysics object (main.py:65 / boiler_physics.py:255)
    model,            \* main.py:57  "None" or "loaded"
    scaler,           \* main.py:58  "None" or "loaded"
    last,             \* the last call made and what it returned to its caller
    log,              \* every dict update() returned since construction / reset
    nticks,           \* number of update() calls made so far (never reset)
    plan,             \* the schedule of control inputs of a paced run (SpecTicks)
    elapsed,          \* time.time() - physics_engine.last_update_time, now
    fc,               \* the frame of a create_input_sequence + iterative_forecast call
    tasks             \* the request handlers of the event loop (SpecServer)

vars == <<physics_engine, model, scaler, last, log, nticks, plan,
          elapsed, fc, tasks>>

-----------------------------------------------------------------------------
(* Bounds of the model *)

\* update() calls in one behaviour of SpecPhysics
MaxTicks == 3

\* /simulate requests in one behaviour of Spec or SpecFloat
MaxSteps == 2

\* update() calls in one behaviour of SpecTicks
MaxRun == 1003

\* fractional digits carried: one more than the ticks a behaviour of
\* SpecPhysics or Spec can take (MaxSteps <= MaxTicks)
Decimals == MaxTicks + 1

U == 10 ^ Decimals

\* the decimal n / 10^d as a fixed-point number (d <= Decimals)
Dec(n, d) == n * (U \div (10 ^ d))

Fx(n) == Dec(n, 0)

-----------------------------------------------------------------------------
(* Physical constants, boiler_physics.py:37-51 *)

FEEDWATER_INFLOW == 15

\* 0.5, in tenths
STEAM_CONVERSION_FACTOR_x10 == 5

\* 1.0, in tenths
PRESSURE_BUILD_RATE_x10 == 10

\* 0.1, in tenths
PRESSURE_DECAY_RATE_x10 == 1

MAX_PRESSURE == 25

MIN_WATER_LEVEL == 10

MAX_WATER_LEVEL == 90

CRITICAL_PRESSURE_THRESHOLD == 20

\* 0.1 s, in tenths of a second
UPDATE_INTERVAL_x10 == 1

\* the literal 1000 of "if len(self.history) > 1000"
HISTORY_CAPACITY == 1000

\* the literals 20.0 and 18.0 of the WARNING branch
WARNING_LEVEL == 20

WARNING_PRESSURE == 18

\* the literals of the temperature estimate: 540, 60, 30.0, 2.0
BASE_TEMP == 540

TEMP_SPAN == 60

SUPERHEAT_LEVEL == 30

SUPERHEAT_GAIN == 2

TripStates == {"LOW_LEVEL_TRIP", "HIGH_LEVEL_TRIP", "CRITICAL_PRESSURE"}

Statuses == TripStates \cup {"NORMAL", "WARNING"}

-----------------------------------------------------------------------------
(* Arithmetic helpers *)

Max(a, b) == IF a >= b THEN a ELSE b

Min(a, b) == IF a <= b THEN a ELSE b

\* A Python float is an IEEE-754 double: 53 significant bits, every result
\* rounded to the nearest double, ties to even.  A double is the record
\* [neg, m, x] standing for m * 2^x, below zero when neg; m is a natural
\* number held as a sequence of LIMB-sized digits, least significant first,
\* without leading zero digits.
LIMB == 2 ^ 14

RECURSIVE BigOf(_)
BigOf(n) == IF n = 0 THEN << >> ELSE << n % LIMB >> \o BigOf(n \div LIMB)

RECURSIVE BigNorm(_)
BigNorm(a) == IF a = << >> THEN << >> ELSE IF a[Len(a)] = 0 THEN BigNorm(SubSeq(a, 1, Len(a) - 1)) ELSE a

RECURSIVE BigMulC(_, _, _)
BigMulC(a, m, c) == IF a = << >> THEN BigOf(c) ELSE << (Head(a) * m + c) % LIMB >> \o BigMulC(Tail(a), m, (Head(a) * m + c) \div LIMB)

\* a * m for a small factor m
BigMul(a, m) == BigNorm(BigMulC(a, m, 0))

RECURSIVE BigAddC(_, _, _)
BigAddC(a, b, c) ==
    IF a = << >> /\ b = << >> THEN BigOf(c)
    ELSE LET t == (IF a = << >> THEN 0 ELSE Head(a)) + (IF b = << >> THEN 0 ELSE Head(b)) + c
         IN  << t % LIMB >> \o BigAddC(IF a = << >> THEN a ELSE Tail(a), IF b = << >> THEN b ELSE Tail(b), t \div LIMB)

BigAdd(a, b) == BigNorm(BigAddC(a, b, 0))

RECURSIVE BigSubC(_, _, _)
BigSubC(a, b, c) ==
    IF a = << >> THEN << >>
    ELSE LET t == Head(a) - (IF b = << >> THEN 0 ELSE Head(b)) - c
         IN  << IF t < 0 THEN t + LIMB ELSE t >> \o BigSubC(Tail(a), IF b = << >> THEN b ELSE Tail(b), IF t < 0 THEN 1 ELSE 0)

\* a - b for a >= b
BigSub(a, b) == BigNorm(BigSubC(a, b, 0))

\* quotient and remainder of a by a small divisor d
RECURSIVE BigDivR(_, _)
BigDivR(a, d) ==
    IF a = << >> THEN [q |-> << >>, r |-> 0]
    ELSE LET hi == BigDivR(Tail(a), d)
             t  == hi.r * LIMB + Head(a)
         IN  [q |-> << t \div d >> \o hi.q, r |-> t % d]

RECURSIVE Zeros(_)
Zeros(n) == IF n = 0 THEN << >> ELSE << 0 >> \o Zeros(n - 1)

\* a * 2^k
BigShl(a, k) == IF a = << >> THEN a ELSE Zeros(k \div 14) \o BigMul(a, 2 ^ (k % 14))

RECURSIVE BitsOf(_)
BitsOf(n) == IF n = 0 THEN 0 ELSE 1 + BitsOf(n \div 2)

BigBits(a) == IF a = << >> THEN 0 ELSE 14 * (Len(a) - 1) + BitsOf(a[Len(a)])

\* a < b, a = b or a > b as -1, 0 or 1
RECURSIVE BigCmp(_, _)
BigCmp(a, b) ==
    IF Len(a) # Len(b) THEN (IF Len(a) < Len(b) THEN 0 - 1 ELSE 1)
    ELSE IF a = << >> THEN 0
    ELSE IF a[Len(a)] # b[Len(b)] THEN (IF a[Len(a)] < b[Len(b)] THEN 0 - 1 ELSE 1)
    ELSE BigCmp(SubSeq(a, 1, Len(a) - 1), SubSeq(b, 1, Len(b) - 1))

\* The size of the double nearest to (Q + f) * 2^x, 0 <= f < 1, inexact
\* saying f # 0: the bits below the 53rd are dropped and the last kept bit
\* goes up when the dropped part is more than half of it (top > H), or
\* exactly half with the kept part odd.
RoundBig(Q, inexact, x) ==
    LET k   == BigBits(Q) - 53
        j   == k \div 14
        e   == k % 14
        dr  == BigDivR(SubSeq(Q, j + 1, Len(Q)), 2 ^ e)
        q   == BigNorm(dr.q)
        top == IF e > 0 THEN dr.r ELSE Q[j]
        H   == IF e > 0 THEN 2 ^ (e - 1) ELSE LIMB \div 2
        nz  == inexact \/ \E i \in 1..(IF e > 0 THEN j ELSE j - 1) : Q[i] # 0
        up  == top > H \/ (top = H /\ (nz \/ Head(q) % 2 = 1))
    IN  IF k <= 0 THEN [m |-> Q, x |-> x]
        ELSE [m |-> IF up THEN BigAdd(q, << 1 >>) ELSE q, x |-> x + k]

\* the double that holds the value n / U: the quotient is taken to a few bits
\* more than 53 and rounded
ToDouble(n) ==
    LET a  == IF n < 0 THEN 0 - n ELSE n
        s  == 56 + BitsOf(U) - BitsOf(a)
        dr == BigDivR(BigShl(BigOf(a), s), U)
    IN  [neg |-> n < 0] @@ RoundBig(BigNorm(dr.q), dr.r # 0, 0 - s)

\* The size of the double a against the decimal (2 * k + 1) / (2 * 10^d),
\* the tie between the d-digit decimals k and k + 1: -1 below it, 0 on it,
\* 1 above it
CmpTie(a, k, d) ==
    LET lhs == BigShl(BigMul(a.m, 2 * (10 ^ d)), IF a.x > 0 THEN a.x ELSE 0)
        rhs == BigShl(BigOf(2 * k + 1), IF a.x < 0 THEN 0 - a.x ELSE 0)
    IN  BigCmp(lhs, rhs)

\* The float that holds the decimal (2 * k + 1) / (2 * 10^d), a tie between
\* two decimals of d <= 2 digits, is the double nearest to it: TRUE when that
\* double is greater than the decimal.  With 53 significant bits and binary
\* exponent b (2^b <= a / U < 2^(b + 1)), the part of the decimal the double
\* cuts off is ((2 * k + 1) * 2^(51 - b - d) mod 5^d) / 5^d of the last bit
\* kept; the powers of 2 repeat modulo 5 and 25 with period 20.  It is the
\* answer of CmpTie(ToDouble(a), k, d) > 0 without the long arithmetic.
StoredAboveTie(a, k, d) ==
    LET b   == IF a >= U THEN BitsOf(a \div U) - 1 ELSE 0 - BitsOf((U - 1) \div a)
        m   == 5 ^ d
        rem == (((2 * k + 1) % m) * ((2 ^ ((51 - b - d) % 20)) % m)) % m
    IN  2 * rem > m

\* Python round(x, d) / format(x, ".df"): the d-digit decimal nearest to the
\* double that holds x.  A double is on a tie only when the tie is a binary
\* fraction (5^d divides 2 * k + 1): the even neighbour is taken then;
\* on any other decimal tie the side the stored double lies on decides.
RoundTo(x, d) ==
    LET q  == U \div (10 ^ d)
        lo == (x \div q) * q
        r  == x - lo
        a  == IF x < 0 THEN 0 - x ELSE x
        k  == a \div q
        up == IF (2 * k + 1) % (5 ^ d) = 0 THEN k % 2 = 1
              ELSE StoredAboveTie(a, k, d)
        v  == IF up THEN (k + 1) * q ELSE k * q
    IN  IF 2 * r < q THEN lo
        ELSE IF 2 * r > q THEN lo + q
        ELSE IF x < 0 THEN 0 - v ELSE v

Round2(x) == RoundTo(x, 2)

Fmt1(x) == RoundTo(x, 1)

-----------------------------------------------------------------------------
(* DrumBoilerPhysics *)

\* __init__
NewEngine(initial_water_level, initial_pressure, initial_temperature) ==
    [ water_level    |-> initial_water_level,
      pressure       |-> initial_pressure,
      temperature    |-> initial_temperature,
      fire_intensity |-> 0,
      status         |-> "NORMAL",
      alarm_messages |-> << >>,
      history        |-> << >> ]

\* The clamp without its upper limit
ClampFire_NoCeiling(fire_intensity) == Max(0, fire_intensity)

\* self.fire_intensity = max(0.0, min(100.0, fire_intensity))
ClampFire(fire_intensity) == Max(0, Min(Fx(100), fire_intensity))

\* steam_generation_rate = self.fire_intensity * STEAM_CONVERSION_FACTOR
SteamRate(fire) == (fire * STEAM_CONVERSION_FACTOR_x10) \div 10

\* self.water_level = max(0.0, min(100.0, self.water_level))
ClampLevel(w) == Max(0, Min(Fx(100), w))

\* STEP 2: mass balance
NextLevel(water_level, steam, dt) ==
    LET water_inflow     == Fx(FEEDWATER_INFLOW)
        water_outflow    == steam
        net_water_change ==
            ((water_inflow - water_outflow) * dt) \div UPDATE_INTERVAL_x10
    IN  ClampLevel(water_level + net_water_change)

\* ClampPressure without its upper limit
ClampPressure_NoCeiling(p) == Max(0, p)

\* self.pressure = max(0.0, min(self.MAX_PRESSURE, self.pressure))
ClampPressure(p) == Max(0, Min(Fx(MAX_PRESSURE), p))

\* STEP 3: energy balance
NextPressure(pressure, steam, dt) ==
    LET pressure_build ==
            (((steam * PRESSURE_BUILD_RATE_x10) \div 10) * dt)
                \div UPDATE_INTERVAL_x10
        pressure_loss ==
            ((pressure * PRESSURE_DECAY_RATE_x10 * dt) \div 10)
                \div UPDATE_INTERVAL_x10
        net_pressure_change == pressure_build - pressure_loss
    IN  ClampPressure(pressure + net_pressure_change)

\* STEP 4: temperature estimate
Temperature(water_level, pressure) ==
    LET base_temp == Fx(BASE_TEMP) + (pressure * TEMP_SPAN) \div MAX_PRESSURE
    IN  IF water_level < Fx(SUPERHEAT_LEVEL)
        THEN base_temp + (Fx(SUPERHEAT_LEVEL) - water_level) * SUPERHEAT_GAIN
        ELSE base_temp

\* The cascade with the level trips tested before the pressure
Classify_LevelFirst(water_level, pressure) ==
    IF water_level < Fx(MIN_WATER_LEVEL) THEN "LOW_LEVEL_TRIP"
    ELSE IF water_level > Fx(MAX_WATER_LEVEL) THEN "HIGH_LEVEL_TRIP"
    ELSE IF pressure > Fx(CRITICAL_PRESSURE_THRESHOLD) THEN "CRITICAL_PRESSURE"
    ELSE IF water_level < Fx(WARNING_LEVEL) \/ pressure > Fx(WARNING_PRESSURE)
         THEN "WARNING"
    ELSE "NORMAL"

\* STEP 5: the if / elif cascade that sets self.status
Classify(water_level, pressure) ==
    IF pressure > Fx(CRITICAL_PRESSURE_THRESHOLD) THEN "CRITICAL_PRESSURE"
    ELSE IF water_level < Fx(MIN_WATER_LEVEL) THEN "LOW_LEVEL_TRIP"
    ELSE IF water_level > Fx(MAX_WATER_LEVEL) THEN "HIGH_LEVEL_TRIP"
    ELSE IF water_level < Fx(WARNING_LEVEL) \/ pressure > Fx(WARNING_PRESSURE)
         THEN "WARNING"
    ELSE "NORMAL"

\* An alarm message: its text template and the number formatted into it.
Alarm(text, x) == [text |-> text, value |-> Fmt1(x)]

\* The WARNING branch with its second `if` written as an `elif`
Alarms_OneWarning(water_level, pressure) ==
    IF pressure > Fx(CRITICAL_PRESSURE_THRESHOLD)
    THEN << Alarm("CRITICAL: Pressure exceeds safe limit", pressure) >>
    ELSE IF water_level < Fx(MIN_WATER_LEVEL)
    THEN << Alarm("TRIP: Drum level - Boiler shutdown", water_level) >>
    ELSE IF water_level > Fx(MAX_WATER_LEVEL)
    THEN << Alarm("TRIP: Drum level - Carryover risk", water_level) >>
    ELSE IF water_level < Fx(WARNING_LEVEL)
    THEN << Alarm("WARNING: Low drum level", water_level) >>
    ELSE IF pressure > Fx(WARNING_PRESSURE)
    THEN << Alarm("WARNING: High pressure", pressure) >>
    ELSE << >>

\* STEP 5: the messages appended to the fresh self.alarm_messages
Alarms(water_level, pressure) ==
    IF pressure > Fx(CRITICAL_PRESSURE_THRESHOLD)
    THEN << Alarm("CRITICAL: Pressure exceeds safe limit", pressure) >>
    ELSE IF water_level < Fx(MIN_WATER_LEVEL)
    THEN << Alarm("TRIP: Drum level - Boiler shutdown", water_level) >>
    ELSE IF water_level > Fx(MAX_WATER_LEVEL)
    THEN << Alarm("TRIP: Drum level - Carryover risk", water_level) >>
    ELSE IF water_level < Fx(WARNING_LEVEL) \/ pressure > Fx(WARNING_PRESSURE)
    THEN (IF water_level < Fx(WARNING_LEVEL)
          THEN << Alarm("WARNING: Low drum level", water_level) >>
          ELSE << >>)
         \o
         (IF pressure > Fx(WARNING_PRESSURE)
          THEN << Alarm("WARNING: High pressure", pressure) >>
          ELSE << >>)
    ELSE << >>

\* STEP 6: the dict update() returns and stores in the history
StateDict(water_level, pressure, temperature, fire, steam, status, alarms) ==
    [ water_level      |-> Round2(water_level),
      pressure         |-> Round2(pressure),
      temperature      |-> Round2(temperature),
      fire_intensity   |-> Round2(fire),
      steam_generation |-> Round2(steam),
      status           |-> status,
      alarms           |-> alarms ]

\* HistoryAppend evicting the newest sample instead of the oldest
HistoryAppend_DropsNewest(history, state) ==
    LET h == Append(history, state)
    IN  IF Len(h) > HISTORY_CAPACITY THEN SubSeq(h, 1, Len(h) - 1) ELSE h

\* self.history.append(state.copy()); pop(0) beyond 1000 samples
HistoryAppend(history, state) ==
    LET h == Append(history, state)
    IN  IF Len(h) > HISTORY_CAPACITY THEN Tail(h) ELSE h

\* What update(fire_intensity) returns, dt being time.time() - last_update_time
UpdateState(e, fire_intensity, dt) ==
    LET fire  == ClampFire(fire_intensity)
        steam == SteamRate(fire)
        w     == NextLevel(e.water_level, steam, dt)
        p     == NextPressure(e.pressure, steam, dt)
    IN  StateDict(w, p, Temperature(w, p), fire, steam,
                  Classify(w, p), Alarms(w, p))

\* update with STEP 4 reading the level and pressure the tick started from
update_StaleTemperature(e, fire_intensity, dt) ==
    LET fire  == ClampFire(fire_intensity)
        steam == SteamRate(fire)
        w     == NextLevel(e.water_level, steam, dt)
        p     == NextPressure(e.pressure, steam, dt)
    IN  [ water_level    |-> w,
          pressure       |-> p,
          temperature    |-> Temperature(e.water_level, e.pressure),
          fire_intensity |-> fire,
          status         |-> Classify(w, p),
          alarm_messages |-> Alarms(w, p),
          history        |-> HistoryAppend(e.history,
                                           UpdateState(e, fire_intensity, dt)) ]

\* The object after update(fire_intensity)
update(e, fire_intensity, dt) ==
    LET fire  == ClampFire(fire_intensity)
        steam == SteamRate(fire)
        w     == NextLevel(e.water_level, steam, dt)
        p     == NextPressure(e.pressure, steam, dt)
    IN  [ water_level    |-> w,
          pressure       |-> p,
          temperature    |-> Temperature(w, p),
          fire_intensity |-> fire,
          status         |-> Classify(w, p),
          alarm_messages |-> Alarms(w, p),
          history        |-> HistoryAppend(e.history,
                                           UpdateState(e, fire_intensity, dt)) ]

\* reset that leaves the history in place
reset_KeepsHistory(e, water_level, pressure, temperature) ==
    [ water_level    |-> water_level,
      pressure       |-> pressure,
      temperature    |-> temperature,
      fire_intensity |-> 0,
      status         |-> "NORMAL",
      alarm_messages |-> << >>,
      history        |-> e.history ]

\* The object after reset(water_level, pressure, temperature)
reset(e, water_level, pressure, temperature) ==
    [ water_level    |-> water_level,
      pressure       |-> pressure,
      temperature    |-> temperature,
      fire_intensity |-> 0,
      status         |-> "NORMAL",
      alarm_messages |-> << >>,
      history        |-> << >> ]

\* What get_state() returns
get_state(e) ==
    [ water_level    |-> Round2(e.water_level),
      pressure       |-> Round2(e.pressure),
      temperature    |-> Round2(e.temperature),
      fire_intensity |-> Round2(e.fire_intensity),
      status         |-> e.status,
      alarms         |-> e.alarm_messages ]

-----------------------------------------------------------------------------
(* Inputs of the object-level specification *)

\* <<water_level, pressure, temperature>> handed to __init__ / reset
DefaultValues == << Fx(50), Fx(10), Fx(540) >>

InitialValues ==
    { DefaultValues,
      << Fx(5),  Fx(21), Fx(540) >>,
      << Fx(5),  Fx(10), Fx(600) >>,
      << Dec(12346, 3), Fx(18), Dec(555556, 3) >>,
      << Fx(95), Fx(20), Fx(540) >>,
      << Fx(10), Fx(19), Fx(540) >>,
      << Fx(90), Fx(18), Fx(540) >>,
      << Fx(20), Fx(10), Fx(540) >>,
      << Fx(50), Fx(10), Dec(560015, 3) >> }

ResetValues ==
    { DefaultValues,
      << Fx(5), Fx(21), Fx(540) >>,
      << Dec(12346, 3), Fx(18), Dec(555556, 3) >> }

\* fire_intensity arguments of update(), two of them outside [0, 100]
Fires == { Fx(0 - 10), Fx(0), Fx(30), Fx(100), Fx(120) }

\* time.time() - last_update_time at a call of update(), in tenths of a
\* second
Elapsed == { 0, 1, 2, 12 }

\* time.time() - last_update_time at a call of get_state()
QueryTimes == { 0, 1 }

NoPlan == [base |-> 0, stride |-> 0]

\* no forecast call is running
NoForecast == [pc |-> "none"]

\* no request has reached the event loop
NoTasks == << >>

-----------------------------------------------------------------------------
(* SpecPhysics: the DrumBoilerPhysics object driven directly *)

InitPhysics ==
    /\ \E v \in InitialValues : physics_engine = NewEngine(v[1], v[2], v[3])
    /\ model = "None"
    /\ scaler = "None"
    /\ last = [op |-> "__init__"]
    /\ log = << >>
    /\ nticks = 0
    /\ plan = NoPlan
    /\ elapsed = 0
    /\ fc = NoForecast
    /\ tasks = NoTasks

\* update(fire_intensity), called when dt has passed since last_update_time
Update(fire_intensity, dt) ==
    /\ nticks < MaxTicks
    /\ dt >= elapsed
    /\ physics_engine' = update(physics_engine, fire_intensity, dt)
    /\ last' = [op |-> "update", args |-> <<fire_intensity>>, dt |-> dt,
                ret |-> UpdateState(physics_engine, fire_intensity, dt)]
    /\ log' = Append(log, UpdateState(physics_engine, fire_intensity, dt))
    /\ nticks' = nticks + 1
    /\ elapsed' = 0
    /\ UNCHANGED <<model, scaler, plan, fc, tasks>>

Reset(water_level, pressure, temperature) ==
    /\ physics_engine' = reset(physics_engine, water_level, pressure, temperature)
    /\ last' = [op |-> "reset",
                args |-> <<water_level, pressure, temperature>>]
    /\ log' = << >>
    /\ elapsed' = 0
    /\ UNCHANGED <<model, scaler, nticks, plan, fc, tasks>>

\* get_state that also stamps last_update_time
GetState_StampsTime(at) ==
    /\ at >= elapsed
    /\ last' = [op |-> "get_state", at |-> at,
                ret |-> get_state(physics_engine)]
    /\ elapsed' = 0
    /\ UNCHANGED <<physics_engine, model, scaler, log, nticks, plan, fc, tasks>>

\* get_state(), called when `at` has passed since last_update_time
GetState(at) ==
    /\ at >= elapsed
    /\ last' = [op |-> "get_state", at |-> at,
                ret |-> get_state(physics_engine)]
    /\ elapsed' = at
    /\ UNCHANGED <<physics_engine, model, scaler, log, nticks, plan, fc, tasks>>

NextPhysics ==
    \/ \E f \in Fires, dt \in Elapsed : Update(f, dt)
    \/ \E v \in ResetValues : Reset(v[1], v[2], v[3])
    \/ \E at \in QueryTimes : GetState(at)

SpecPhysics == InitPhysics /\ [][NextPhysics]_vars

-----------------------------------------------------------------------------
(* main.py: configuration and the supervisor's thresholds *)

\* FORECAST_STEPS, main.py:51
FORECAST_STEPS == 30

\* DANGER_TEMP_THRESHOLD, main.py:377
DANGER_TEMP_THRESHOLD == 560

\* SAFE_FIRE_LIMIT, main.py:378
SAFE_FIRE_LIMIT == 60

\* user_fire_intensity: Field(..., ge=0, le=100); nan, coded below every
\* finite value, passes neither comparison
ValidRequest(user_fire_intensity) ==
    /\ user_fire_intensity >= Fx(0)
    /\ user_fire_intensity <= Fx(100)

\* The guard testing the model alone
DependenciesLoaded_ModelOnly(m, s) == m # "None"

\* if model is None or scaler is None: raise HTTPException(503)
DependenciesLoaded(m, s) == ~(m = "None" \/ s = "None")

\* A forecast value is a float and may be none of the reals the fixed-point
\* integers stand for.  nan, inf and -inf are coded as three integers beyond
\* every finite value of the model, and each operation the handler applies
\* to a forecast value treats them as Python's float does.
NaN == 0 - (2 ^ 30) - 1

PosInf == 2 ^ 30

NegInf == 0 - (2 ^ 30)

IsFinite(x) == x \notin {NaN, PosInf, NegInf}

\* x > y on floats: False whenever an operand is nan
FloatGt(x, y) == x # NaN /\ y # NaN /\ x > y

\* sum(future_temperatures) / len(future_temperatures) when a value is not
\* finite: nan once a nan or both infinities were added, else the infinity
NonFiniteAvg(future_temperatures) ==
    LET vs == { future_temperatures[i] : i \in 1..Len(future_temperatures) }
    IN  IF NaN \in vs \/ (PosInf \in vs /\ NegInf \in vs) THEN NaN
        ELSE IF PosInf \in vs THEN PosInf
        ELSE NegInf

\* The danger indicator taken as the peak of the series
FinalOf_Peak(future_temperatures) ==
    CHOOSE x \in { future_temperatures[i] : i \in 1..Len(future_temperatures) } :
        \A i \in 1..Len(future_temperatures) : x >= future_temperatures[i]

\* predicted_temp_final = future_temperatures[-1]
FinalOf(future_temperatures) == future_temperatures[Len(future_temperatures)]

RECURSIVE SumSeq(_)
SumSeq(s) == IF s = << >> THEN 0 ELSE Head(s) + SumSeq(Tail(s))

\* a + b on doubles; x - x is +0.0
DoubleAdd(a, b) ==
    LET x == IF a.x < b.x THEN a.x ELSE b.x
        A == BigShl(a.m, a.x - x)
        B == BigShl(b.m, b.x - x)
        c == BigCmp(A, B)
    IN  IF a.neg = b.neg THEN [neg |-> a.neg] @@ RoundBig(BigAdd(A, B), FALSE, x)
        ELSE IF c = 0 THEN [neg |-> FALSE, m |-> << >>, x |-> 0]
        ELSE IF c > 0 THEN [neg |-> a.neg] @@ RoundBig(BigSub(A, B), FALSE, x)
        ELSE [neg |-> b.neg] @@ RoundBig(BigSub(B, A), FALSE, x)

\* fabs(a) >= fabs(b)
FabsGe(a, b) ==
    LET x == IF a.x < b.x THEN a.x ELSE b.x
    IN  BigCmp(BigShl(a.m, a.x - x), BigShl(b.m, b.x - x)) >= 0

\* a / d on a double and a small whole number
DoubleDiv(a, d) ==
    LET dr == BigDivR(BigShl(a.m, 70), d)
    IN  [neg |-> a.neg] @@ RoundBig(BigNorm(dr.q), dr.r # 0, a.x - 70)

\* sum(future_temperatures) as the interpreters up to Python 3.11 compute it:
\* the values are added left to right, every addition rounded; the running
\* total starts at 0, and 0 + v is v
RECURSIVE DoubleSum(_, _)
DoubleSum(acc, s) ==
    IF s = << >> THEN acc
    ELSE IF acc.m = << >> THEN DoubleSum(Head(s), Tail(s))
    ELSE DoubleSum(DoubleAdd(acc, Head(s)), Tail(s))

\* sum(future_temperatures) as the interpreters from Python 3.12 on compute
\* it: next to the running total t they keep the rounding errors of the
\* additions in c,
\*     c += (total - t) + v  if fabs(total) >= fabs(v)  else  (v - t) + total
\* and add c to the total at the end when it is not zero
RECURSIVE CompensatedSum(_, _, _)
CompensatedSum(total, c, s) ==
    IF s = << >> THEN (IF c.m = << >> THEN total ELSE DoubleAdd(total, c))
    ELSE IF c.m = << >> /\ total.m = << >> THEN CompensatedSum(Head(s), c, Tail(s))
    ELSE LET v == Head(s)
             t == DoubleAdd(total, v)
             minus_t == [t EXCEPT !.neg = ~t.neg]
             e == IF FabsGe(total, v) THEN DoubleAdd(DoubleAdd(total, minus_t), v)
                  ELSE DoubleAdd(DoubleAdd(v, minus_t), total)
         IN  CompensatedSum(t, DoubleAdd(c, e), Tail(s))

\* round(sum(future_temperatures) / len(future_temperatures), 2), compensated
\* telling which sum() the interpreter has (the repository pins none).
\* Off a decimal tie the computed average lies on the same side of the tie as
\* the exact one; on a tie the double that sum() and "/" produce decides, and
\* only a double that holds the tie exactly is rounded half to even.
RoundedAvg(future_temperatures, compensated) ==
    IF \E i \in 1..Len(future_temperatures) : ~IsFinite(future_temperatures[i])
    THEN NonFiniteAvg(future_temperatures)
    ELSE
    LET q  == (U \div 100) * Len(future_temperatures)
        s  == SumSeq(future_temperatures)
        a  == IF s < 0 THEN 0 - s ELSE s
        k  == a \div q
        r  == a - k * q
        double == [v \in { future_temperatures[i] : i \in 1..Len(future_temperatures) } |-> ToDouble(v)]
        floats == [i \in 1..Len(future_temperatures) |-> double[future_temperatures[i]]]
        total == IF compensated
                 THEN CompensatedSum(ToDouble(0), ToDouble(0), floats)
                 ELSE DoubleSum(ToDouble(0), floats)
        c  == CmpTie(DoubleDiv(total, Len(future_temperatures)), k, 2)
        n  == IF 2 * r < q THEN k
              ELSE IF 2 * r > q THEN k + 1
              ELSE IF c < 0 THEN k
              ELSE IF c > 0 THEN k + 1
              ELSE IF k % 2 = 0 THEN k ELSE k + 1
    IN  (IF s < 0 THEN 0 - n ELSE n) * (U \div 100)

\* round(predicted_temp_final, 2): nan and the infinities round to themselves
RoundFloat2(x) == IF IsFinite(x) THEN Round2(x) ELSE x

\* The comparison made non-strict
Danger_AtLeast(predicted_temp_final) ==
    /\ predicted_temp_final # NaN
    /\ predicted_temp_final >= Fx(DANGER_TEMP_THRESHOLD)

\* if predicted_temp_final > DANGER_TEMP_THRESHOLD
Danger(predicted_temp_final) ==
    FloatGt(predicted_temp_final, Fx(DANGER_TEMP_THRESHOLD))

\* The decision taken without looking at ai_mode_enabled
Intervenes_IgnoresMode(ai_mode_enabled, predicted_temp_final) ==
    Danger(predicted_temp_final)

\* STEP 4: ai_intervention_active
Intervenes(ai_mode_enabled, predicted_temp_final) ==
    ai_mode_enabled /\ Danger(predicted_temp_final)

\* The intervention setting the input to the limit instead of capping it
FinalFireInput_SetsLimit(user_fire_input, ai_mode_enabled, predicted_temp_final) ==
    IF Intervenes(ai_mode_enabled, predicted_temp_final)
    THEN Fx(SAFE_FIRE_LIMIT)
    ELSE user_fire_input

\* STEP 4: final_fire_input
FinalFireInput(user_fire_input, ai_mode_enabled, predicted_temp_final) ==
    IF Intervenes(ai_mode_enabled, predicted_temp_final)
    THEN Min(user_fire_input, Fx(SAFE_FIRE_LIMIT))
    ELSE user_fire_input

\* mapped_valve = 50.0, main.py:337
MAPPED_VALVE == 50

\* the factor of mapped_flow = user_fire_input * 2.0, main.py:339
FLOW_PER_FIRE == 2

\* The seed with the target slot left at create_input_sequence's default
ForecastSeed_DefaultTemp(e, user_fire_input) ==
    [ valve        |-> Fx(MAPPED_VALVE),
      pressure     |-> e.pressure,
      flow         |-> user_fire_input * FLOW_PER_FIRE,
      current_temp |-> Fx(538) ]

\* STEP 1-3: the arguments handed to create_input_sequence
ForecastSeed(e, user_fire_input) ==
    [ valve        |-> Fx(MAPPED_VALVE),
      pressure     |-> e.pressure,
      flow         |-> user_fire_input * FLOW_PER_FIRE,
      current_temp |-> e.temperature ]

\* The response reporting the requested input as the actual one
SimulationResponse_ReportsRequested(physics_state, user_fire_input, ai_mode_enabled, future_temperatures, compensated) ==
    LET final == FinalOf(future_temperatures)
        fire  == FinalFireInput(user_fire_input, ai_mode_enabled, final)
    IN  [ visual_state |->
            [ water_level      |-> physics_state.water_level,
              pressure         |-> physics_state.pressure,
              temperature      |-> physics_state.temperature,
              fire_intensity   |-> fire,
              steam_generation |-> physics_state.steam_generation ],
          ai_data |->
            [ predicted_temp_avg   |-> RoundedAvg(future_temperatures, compensated),
              predicted_temp_final |-> RoundFloat2(final),
              original_user_input  |-> user_fire_input,
              actual_system_input  |-> user_fire_input,
              intervention_active  |-> Intervenes(ai_mode_enabled, final),
              ai_mode_enabled      |-> ai_mode_enabled ],
          status |-> physics_state.status ]

\* STEP 6: the SimulationResponse; compensated tells which sum() the
\* interpreter running the service has
SimulationResponse(physics_state, user_fire_input, ai_mode_enabled, future_temperatures, compensated) ==
    LET final == FinalOf(future_temperatures)
        fire  == FinalFireInput(user_fire_input, ai_mode_enabled, final)
    IN  [ visual_state |->
            [ water_level      |-> physics_state.water_level,
              pressure         |-> physics_state.pressure,
              temperature      |-> physics_state.temperature,
              fire_intensity   |-> fire,
              steam_generation |-> physics_state.steam_generation ],
          ai_data |->
            [ predicted_temp_avg   |-> RoundedAvg(future_temperatures, compensated),
              predicted_temp_final |-> RoundFloat2(final),
              original_user_input  |-> user_fire_input,
              actual_system_input  |-> fire,
              intervention_active  |-> Intervenes(ai_mode_enabled, final),
              ai_mode_enabled      |-> ai_mode_enabled ],
          status |-> physics_state.status ]

-----------------------------------------------------------------------------
(* Inputs of the service-level specification *)

\* user_fire_intensity of a request; the last one fails validation
FireRequests == { Fx(0), Fx(30), Fx(100), Fx(120) }

Flat(v) == [i \in 1..FORECAST_STEPS |-> v]

Spike(mid, final) ==
    [i \in 1..FORECAST_STEPS |-> IF i = FORECAST_STEPS THEN final ELSE mid]

\* What create_input_sequence + iterative_forecast may produce: the Predictor
\* is opaque, so a forecast is any of these series, or an exception.
Forecasts ==
    { [ok |-> FALSE, temps |-> << >>] }
    \cup
    { [ok |-> TRUE, temps |-> t] :
        t \in { Flat(Fx(550)), Flat(Fx(560)), Flat(Dec(5601, 1)),
                Spike(Fx(600), Fx(550)), Spike(Fx(550), Fx(600)) } }

\* time.time() - last_update_time at the update() of a request
StepElapsed == { 0, 1, 2 }

-----------------------------------------------------------------------------
(* Spec: the service, one action per event / endpoint *)

Init ==
    /\ physics_engine = NewEngine(Fx(50), Fx(10), Fx(540))
    /\ model = "None"
    /\ scaler = "None"
    /\ last = [op |-> "import"]
    /\ log = << >>
    /\ nticks = 0
    /\ plan = NoPlan
    /\ elapsed = 0
    /\ fc = NoForecast
    /\ tasks = NoTasks

\* @app.on_event("startup"): the model file, then the scaler file
load_model_and_scaler(model_found, scaler_found) ==
    /\ model = "None"
    /\ scaler = "None"
    /\ last.op = "import"
    /\ model' = IF model_found THEN "loaded" ELSE "None"
    /\ scaler' = IF model_found /\ scaler_found THEN "loaded" ELSE "None"
    /\ last' = [op |-> "startup", ok |-> model_found /\ scaler_found]
    /\ UNCHANGED <<physics_engine, log, nticks, plan, elapsed, fc, tasks>>

\* The status code of a request the validation of SimulationRequest rejects:
\* 422, whose body echoes the rejected input; when that input is not finite
\* the JSON encoder refuses the body and the caller gets 500.
RejectionCode(user_fire_intensity) ==
    IF IsFinite(user_fire_intensity) THEN 422 ELSE 500

\* The status codes the framework may answer once the handler has returned
\* its SimulationResponse: 200, or 500 when its JSON encoder refuses a
\* non-finite float of ai_data (which encoder runs depends on the installed
\* framework, which the repository does not pin).
ResponseCodes(future_temperatures) ==
    IF \A i \in 1..Len(future_temperatures) : IsFinite(future_temperatures[i])
    THEN {200}
    ELSE {200, 500}

\* What the caller of POST /simulate sent and got: `forecast` tells whether
\* the forecast of this request was not reached, raised, or returned.
SimulateCall(user_fire_intensity, ai_mode_enabled, forecast, code) ==
    [ op       |-> "simulate",
      args     |-> [ user_fire_intensity |-> user_fire_intensity,
                     ai_mode_enabled     |-> ai_mode_enabled ],
      forecast |-> forecast,
      code     |-> code ]

\* POST /simulate, handled when dt has passed since last_update_time
simulate_boiler(user_fire_intensity, ai_mode_enabled, forecast, dt) ==
    /\ nticks < MaxSteps
    /\ dt >= elapsed
    /\ IF ~ValidRequest(user_fire_intensity)
       THEN /\ last' = SimulateCall(user_fire_intensity, ai_mode_enabled,
                                    "not called",
                                    RejectionCode(user_fire_intensity))
            /\ elapsed' = dt
            /\ UNCHANGED <<physics_engine, log, nticks>>
       ELSE IF ~DependenciesLoaded(model, scaler)
       THEN /\ last' = SimulateCall(user_fire_intensity, ai_mode_enabled,
                                    "not called", 503)
            /\ elapsed' = dt
            /\ UNCHANGED <<physics_engine, log, nticks>>
       ELSE IF ~forecast.ok
       THEN /\ last' = SimulateCall(user_fire_intensity, ai_mode_enabled,
                                    "raised", 500)
                           @@ [ seed |-> ForecastSeed(physics_engine,
                                                      user_fire_intensity) ]
            /\ elapsed' = dt
            /\ UNCHANGED <<physics_engine, log, nticks>>
       ELSE LET final_fire_input ==
                    FinalFireInput(user_fire_intensity, ai_mode_enabled,
                                   FinalOf(forecast.temps))
                physics_state ==
                    UpdateState(physics_engine, final_fire_input, dt)
            IN  /\ physics_engine' = update(physics_engine, final_fire_input, dt)
                /\ log' = Append(log, physics_state)
                /\ nticks' = nticks + 1
                /\ elapsed' = 0
                /\ \E code \in ResponseCodes(forecast.temps), compensated \in BOOLEAN :
                     last' = SimulateCall(user_fire_intensity, ai_mode_enabled,
                                          "returned", code)
                           @@ [ seed  |-> ForecastSeed(physics_engine,
                                                       user_fire_intensity),
                                temps |-> forecast.temps,
                                final |-> FinalOf(forecast.temps),
                                dt    |-> dt,
                                body  |-> SimulationResponse(physics_state,
                                             user_fire_intensity,
                                             ai_mode_enabled, forecast.temps,
                                             compensated) ]
    /\ UNCHANGED <<model, scaler, plan, fc, tasks>>

\* POST /reset
reset_simulation ==
    /\ physics_engine' = reset(physics_engine, Fx(50), Fx(10), Fx(540))
    /\ last' = [op |-> "reset", code |-> 200,
                args |-> << Fx(50), Fx(10), Fx(540) >>,
                ret |-> get_state(reset(physics_engine, Fx(50), Fx(10), Fx(540)))]
    /\ log' = << >>
    /\ elapsed' = 0
    /\ UNCHANGED <<model, scaler, nticks, plan, fc, tasks>>

\* GET /state, handled when `at` has passed since last_update_time
get_current_state(at) ==
    /\ at >= elapsed
    /\ last' = [op |-> "get_state", code |-> 200, at |-> at,
                ret |-> get_state(physics_engine)]
    /\ elapsed' = at
    /\ UNCHANGED <<physics_engine, model, scaler, log, nticks, plan, fc, tasks>>

Next ==
    \/ \E m \in BOOLEAN, s \in BOOLEAN : load_model_and_scaler(m, s)
    \/ \E f \in FireRequests, ai \in BOOLEAN, fo \in Forecasts, dt \in StepElapsed :
          simulate_boiler(f, ai, fo, dt)
    \/ reset_simulation
    \/ \E at \in QueryTimes : get_current_state(at)

Spec == Init /\ [][Next]_vars

-----------------------------------------------------------------------------
(* SpecFloat: the service with a Predictor whose outputs may be nan or     *)
(* infinite (the forecast returns them as it returns any other float)      *)

\* forecasts with a non-finite value in the final slot, in an earlier slot
\* or in both, next to finite ones below and above the threshold
FloatForecasts ==
    { [ok |-> FALSE, temps |-> << >>] }
    \cup
    { [ok |-> TRUE, temps |-> t] :
        t \in { Flat(NaN), Spike(Fx(550), PosInf), Spike(Fx(600), NegInf),
                Spike(NaN, Fx(600)), Spike(PosInf, NegInf),
                Flat(Fx(550)), Flat(Fx(560)), Spike(Fx(550), Fx(600)) } }

\* user_fire_intensity of a request: JSON's NaN and Infinity parse to floats
FloatRequests == FireRequests \cup { NaN, PosInf, NegInf }

NextFloat ==
    \/ \E m \in BOOLEAN, s \in BOOLEAN : load_model_and_scaler(m, s)
    \/ \E f \in FloatRequests, ai \in BOOLEAN, fo \in FloatForecasts :
          simulate_boiler(f, ai, fo, UPDATE_INTERVAL_x10)
    \/ reset_simulation
    \/ \E at \in QueryTimes : get_current_state(at)

SpecFloat == Init /\ [][NextFloat]_vars

-----------------------------------------------------------------------------
(* SpecTicks: one object ticked by its caller once per UPDATE_INTERVAL     *)
(* (update() is "the game loop - call this repeatedly"), the control input *)
(* following a schedule, long enough to fill the history                   *)

\* the last tick before which a run of SpecTicks may call reset()
MaxResetTick == 1

\* the length of the full-fire scenario: "for i in range(200)  # 200 ticks =
\* 20 seconds", boiler_physics.py:261
TEST1_TICKS == 200

\* the length of the equilibrium scenario: "for i in range(100)",
\* boiler_physics.py:281
TEST2_TICKS == 100

\* fire_intensity 100.0 on every tick
FullFirePlan == [base |-> 100, stride |-> 0]

\* fire_intensity 30.0 on every tick
SteadyPlan == [base |-> 30, stride |-> 0]

\* a control input that changes from tick to tick, within [40, 100]
SweepPlan == [base |-> 40, stride |-> 7]

Plans == { FullFirePlan, SteadyPlan, SweepPlan }

\* the fire_intensity a plan gives to its n-th update() (n = 0, 1, ...)
PlanFire(pl, n) == Fx(pl.base + ((n * pl.stride) % (101 - pl.base)))

InitTicks ==
    /\ physics_engine = NewEngine(Fx(50), Fx(10), Fx(540))
    /\ model = "None"
    /\ scaler = "None"
    /\ last = [op |-> "__init__"]
    /\ log = << >>
    /\ nticks = 0
    /\ plan \in Plans
    /\ elapsed = 0
    /\ fc = NoForecast
    /\ tasks = NoTasks

\* update(fire_intensity) called one UPDATE_INTERVAL after the call before
PacedUpdate ==
    /\ nticks < MaxRun
    /\ physics_engine' =
           update(physics_engine, PlanFire(plan, nticks), UPDATE_INTERVAL_x10)
    /\ last' = [op |-> "update",
                ret |-> UpdateState(physics_engine, PlanFire(plan, nticks),
                                    UPDATE_INTERVAL_x10)]
    /\ log' = Append(log, UpdateState(physics_engine, PlanFire(plan, nticks),
                                      UPDATE_INTERVAL_x10))
    /\ nticks' = nticks + 1
    /\ elapsed' = 0
    /\ UNCHANGED <<model, scaler, plan, fc, tasks>>

\* reset() with its default arguments, which the caller may make between
\* any two ticks; the model follows the callers that make it before tick
\* MaxResetTick + 1
PacedReset ==
    /\ nticks <= MaxResetTick
    /\ physics_engine' = reset(physics_engine, Fx(50), Fx(10), Fx(540))
    /\ last' = [op |-> "reset", args |-> DefaultValues]
    /\ log' = << >>
    /\ elapsed' = 0
    /\ UNCHANGED <<model, scaler, nticks, plan, fc, tasks>>

NextTicks == PacedUpdate \/ PacedReset

SpecTicks == InitTicks /\ [][NextTicks]_vars

-----------------------------------------------------------------------------
(* The forecast: create_input_sequence and iterative_forecast, main.py      *)
(*                                                                         *)
(* A row is <<valve, pressure, flow, temperature>>.  The scaler is a       *)
(* per-feature affine map, (x - mean) / scale; normalized values are       *)
(* fixed-point numbers in the same unit 1/U, and the scalers and seeds     *)
(* drawn keep every quotient exact.  The Predictor is opaque to the        *)
(* program: the model draws it from a few pure functions of the window.    *)

\* SEQUENCE_LENGTH, main.py:50
SEQUENCE_LENGTH == 60

\* the temperature column, index 3 of the program's rows
TEMP_COLUMN == 4

\* scale_[j] counted in tenths (the scales drawn have one decimal), which
\* keeps the products below within 32-bit integers
ScaleTenths(sc, j) == sc.scale[j] \div (U \div 10)

\* scaler.transform on one row: (x - mean_) / scale_
Transform(sc, row) ==
    [j \in 1..4 |-> ((row[j] - sc.mean[j]) * 10) \div ScaleTenths(sc, j)]

\* scaler.inverse_transform on one row: x * scale_ + mean_
InverseTransform(sc, row) ==
    [j \in 1..4 |-> (row[j] * ScaleTenths(sc, j)) \div 10 + sc.mean[j]]

\* sequence = [[valve, pressure, flow, current_temp]] * 60, normalized
create_input_sequence(sc, valve, pressure, flow, current_temp) ==
    [i \in 1..SEQUENCE_LENGTH |->
        Transform(sc, <<valve, pressure, flow, current_temp>>)]

\* model.predict(current_sequence)[0, 0] for the Predictors drawn
Predict(predictor, window) ==
    CASE predictor = "last_target"  -> window[Len(window)][TEMP_COLUMN]
      [] predictor = "first_target" -> window[1][TEMP_COLUMN]
      [] predictor = "rising"       ->
             window[Len(window)][TEMP_COLUMN] + Dec(1, 2)

\* scaler.transform([[valve, pressure, flow, 0]]) with the prediction put
\* in the temperature slot
NextStepNorm(sc, valve, pressure, flow, pred_norm) ==
    [Transform(sc, <<valve, pressure, flow, 0>>) EXCEPT ![TEMP_COLUMN] = pred_norm]

\* np.roll with shift +1: row i moves to i+1, the last row wraps to the front
Roll_Forward(window) ==
    [i \in 1..Len(window) |->
        IF i > 1 THEN window[i - 1] ELSE window[Len(window)]]

\* np.roll(current_sequence, -1, axis=1): row i+1 moves to i, row 0 wraps
\* to the end
Roll(window) ==
    [i \in 1..Len(window) |->
        IF i < Len(window) THEN window[i + 1] ELSE window[1]]

\* the shifted window with its last row overwritten
Slide(window, next_step_norm) ==
    [Roll(window) EXCEPT ![Len(window)] = next_step_norm]

\* The denormalisation reading the predictions back through column 0
Denormalize_ValveColumn(sc, predictions) ==
    [i \in 1..Len(predictions) |->
        InverseTransform(sc, <<predictions[i], 0, 0, 0>>)[1]]

\* dummy[:, 3] = predictions; scaler.inverse_transform(dummy)[:, 3]
Denormalize(sc, predictions) ==
    [i \in 1..Len(predictions) |->
        InverseTransform(sc, <<0, 0, 0, predictions[i]>>)[TEMP_COLUMN]]

\* the scaler fix_scaler.py fits on [0,0,0,500] and [100,10,200,600]
DummyScaler ==
    [ mean  |-> << Fx(50), Fx(5), Fx(100), Fx(550) >>,
      scale |-> << Fx(50), Fx(5), Fx(100), Fx(50) >> ]

\* a scaler as fitted on plant data
FittedScaler ==
    [ mean  |-> << Fx(40), Fx(12), Fx(80), Fx(538) >>,
      scale |-> << Fx(20), Fx(4), Fx(40), Dec(125, 1) >> ]

Scalers == { DummyScaler, FittedScaler }

Predictors == { "last_target", "first_target", "rising" }

\* <<valve, pressure, flow, current_temp>> of a forecast: three as
\* /simulate maps them, one as /predict passes them (current_temp = 538)
Seeds ==
    { << Fx(50), Fx(10), Fx(60), Fx(540) >>,
      << Fx(50), Fx(24), Fx(200), Dec(5601, 1) >>,
      << Fx(50), Dec(125, 1), Fx(0), Fx(600) >>,
      << Fx(30), Fx(10), Fx(100), Fx(538) >> }

\* the `steps` argument of iterative_forecast
Horizons == { 1, 2, FORECAST_STEPS }

-----------------------------------------------------------------------------
(* SpecForecast: one forecast after another, statement by statement *)

InitForecast ==
    /\ physics_engine = NewEngine(Fx(50), Fx(10), Fx(540))
    /\ model = "loaded"
    /\ scaler = "loaded"
    /\ last = [op |-> "startup", ok |-> TRUE]
    /\ log = << >>
    /\ nticks = 0
    /\ plan = NoPlan
    /\ elapsed = 0
    /\ fc = NoForecast
    /\ tasks = NoTasks

\* input_sequence = create_input_sequence(valve, pressure, flow, current_temp)
CreateInputSequence(sc, predictor, seed, steps) ==
    /\ fc.pc \in {"none", "returned"}
    /\ fc' = [ pc               |-> "created",
               scaler           |-> sc,
               predictor        |-> predictor,
               seed             |-> seed,
               steps            |-> steps,
               initial_sequence |-> create_input_sequence(sc, seed[1], seed[2],
                                                          seed[3], seed[4]),
               current_sequence |-> << >>,
               predictions      |-> << >>,
               calls            |-> << >>,
               temperatures     |-> << >> ]
    /\ UNCHANGED <<physics_engine, model, scaler, last, log, nticks, plan,
                   elapsed, tasks>>

\* iterative_forecast: predictions = []; current_sequence = copy
ForecastEnter ==
    /\ fc.pc = "created"
    /\ fc' = [fc EXCEPT !.pc = "loop",
                        !.predictions = << >>,
                        !.calls = << >>,
                        !.current_sequence = fc.initial_sequence]
    /\ UNCHANGED <<physics_engine, model, scaler, last, log, nticks, plan,
                   elapsed, tasks>>

\* one pass of the loop with the prediction put at the head of the list
ForecastStep_Prepends ==
    /\ fc.pc = "loop"
    /\ Len(fc.predictions) < fc.steps
    /\ LET pred_norm == Predict(fc.predictor, fc.current_sequence)
           next_step_norm ==
               NextStepNorm(fc.scaler, fc.seed[1], fc.seed[2], fc.seed[3],
                            pred_norm)
       IN  fc' = [fc EXCEPT
                    !.predictions = <<pred_norm>> \o fc.predictions,
                    !.calls = Append(fc.calls,
                                     [window |-> fc.current_sequence,
                                      result |-> pred_norm]),
                    !.current_sequence =
                        Slide(fc.current_sequence, next_step_norm)]
    /\ UNCHANGED <<physics_engine, model, scaler, last, log, nticks, plan,
                   elapsed, tasks>>

\* one pass of `for step in range(steps)`; fc.calls lists the invocations
\* of model.predict made by this call, each with the window it was given
\* and the scalar it returned
ForecastStep ==
    /\ fc.pc = "loop"
    /\ Len(fc.predictions) < fc.steps
    /\ LET pred_norm == Predict(fc.predictor, fc.current_sequence)
           next_step_norm ==
               NextStepNorm(fc.scaler, fc.seed[1], fc.seed[2], fc.seed[3],
                            pred_norm)
       IN  fc' = [fc EXCEPT
                    !.predictions = Append(fc.predictions, pred_norm),
                    !.calls = Append(fc.calls,
                                     [window |-> fc.current_sequence,
                                      result |-> pred_norm]),
                    !.current_sequence =
                        Slide(fc.current_sequence, next_step_norm)]
    /\ UNCHANGED <<physics_engine, model, scaler, last, log, nticks, plan,
                   elapsed, tasks>>

\* after the loop: denormalize and return the temperatures
ForecastReturn ==
    /\ fc.pc = "loop"
    /\ Len(fc.predictions) = fc.steps
    /\ fc' = [fc EXCEPT !.pc = "returned",
                        !.temperatures = Denormalize(fc.scaler, fc.predictions)]
    /\ UNCHANGED <<physics_engine, model, scaler, last, log, nticks, plan,
                   elapsed, tasks>>

NextForecast ==
    \/ \E sc \in Scalers, pr \in Predictors, seed \in Seeds, h \in Horizons :
          CreateInputSequence(sc, pr, seed, h)
    \/ ForecastEnter
    \/ ForecastStep
    \/ ForecastReturn

SpecForecast == InitForecast /\ [][NextForecast]_vars

-----------------------------------------------------------------------------
(* SpecServer: the handlers of POST /simulate and GET /state as coroutines *)
(* of one event loop, statement by statement.                              *)
(*                                                                         *)
(* uvicorn.run(app) serves the application with one event loop in one     *)
(* process.  Every endpoint is an `async def`, which FastAPI runs on that   *)
(* loop, and the body of a handler holds no `await`: once the loop has     *)
(* entered a handler it executes it to its return before it resumes any    *)
(* other.  Requests that have arrived wait as pending tasks; the loop may  *)
(* take them in any order.  Startup has loaded the model and the scaler.   *)

\* requests of one behaviour of SpecServer
MaxRequests == 2

\* the fields get_state() reads, in the order of its dict display
SnapshotFields ==
    << "water_level", "pressure", "temperature", "fire_intensity",
       "status", "alarm_messages" >>

\* the statements of update() between its first assignment and its return
TickInFlight ==
    { "u_time", "u_level_add", "u_level_clamp", "u_pressure_add",
      "u_pressure_clamp", "u_temperature", "u_alarms", "u_status", "u_return" }

\* a request as it reaches the event loop
NewTask(kind, user_fire_intensity, ai_mode_enabled) ==
    [ kind                  |-> kind,
      pc                    |-> "pending",
      user_fire_intensity   |-> user_fire_intensity,
      ai_mode_enabled       |-> ai_mode_enabled,
      current_pressure      |-> 0,
      current_temperature   |-> 0,
      future_temperatures   |-> << >>,
      final_fire_input      |-> 0,
      dt                    |-> 0,
      steam_generation_rate |-> 0,
      snapshot              |-> << >>,
      seen                  |-> 0,
      order                 |-> 0,
      code                  |-> 0 ]

\* Handlers run as threads: any handler may execute its next statement
Scheduled_Threaded(ts, id) == TRUE

\* GET /state declared with a plain `def`, which runs in the thread pool
\* beside the loop
Scheduled_StateInThreadPool(ts, id) ==
    \/ ts[id].kind = "state"
    \/ \A j \in 1..Len(ts) : j # id => ts[j].pc \in {"pending", "done"}

\* `async def` without await: the loop executes the next statement of
\* handler id only if no other handler is between its entry and its return
Scheduled(ts, id) ==
    \A j \in 1..Len(ts) : j # id => ts[j].pc \in {"pending", "done"}

\* (water_inflow - water_outflow) * dt / UPDATE_INTERVAL
NetWaterChange(steam, dt) ==
    ((Fx(FEEDWATER_INFLOW) - steam) * dt) \div UPDATE_INTERVAL_x10

\* pressure_build - pressure_loss
NetPressureChange(pressure, steam, dt) ==
    (((steam * PRESSURE_BUILD_RATE_x10) \div 10) * dt) \div UPDATE_INTERVAL_x10
    - ((pressure * PRESSURE_DECAY_RATE_x10 * dt) \div 10) \div UPDATE_INTERVAL_x10

\* user_fire_intensity of the requests drawn (all pass validation)
ServerFires == { Fx(30), Fx(100) }

\* the forecasts drawn: one raises, one is safe, one is above the threshold
ServerForecasts ==
    { [ok |-> FALSE, temps |-> << >>],
      [ok |-> TRUE, temps |-> Flat(Fx(550))],
      [ok |-> TRUE, temps |-> Flat(Dec(5601, 1))] }

\* time.time() - last_update_time read by the updates drawn
ServerElapsed == { 0, 1 }

InitServer ==
    /\ physics_engine = NewEngine(Fx(50), Fx(10), Fx(540))
    /\ model = "loaded"
    /\ scaler = "loaded"
    /\ last = [op |-> "startup", ok |-> TRUE]
    /\ log = << >>
    /\ nticks = 0
    /\ plan = NoPlan
    /\ elapsed = 0
    /\ fc = NoForecast
    /\ tasks = NoTasks

\* A request arrives and its handler is scheduled as a task of the loop.
Arrive(kind, user_fire_intensity, ai_mode_enabled) ==
    /\ Len(tasks) < MaxRequests
    /\ \A j \in 1..Len(tasks) : tasks[j].pc \in {"pending", "done"}
    /\ tasks' = Append(tasks, NewTask(kind, user_fire_intensity, ai_mode_enabled))
    /\ UNCHANGED <<physics_engine, model, scaler, last, log, nticks, plan,
                   elapsed, fc>>

\* simulate_boiler: if model is None or scaler is None: raise 503
SimulateEnter(id) ==
    /\ tasks[id].kind = "simulate"
    /\ tasks[id].pc = "pending"
    /\ Scheduled(tasks, id)
    /\ tasks' = [tasks EXCEPT ![id] =
                    IF DependenciesLoaded(model, scaler)
                    THEN [@ EXCEPT !.pc = "read", !.seen = Len(log)]
                    ELSE [@ EXCEPT !.pc = "done", !.code = 503]]
    /\ UNCHANGED <<physics_engine, model, scaler, last, log, nticks, plan,
                   elapsed, fc>>

\* STEP 1: current_pressure, current_temperature
SimulateRead(id) ==
    /\ tasks[id].pc = "read"
    /\ Scheduled(tasks, id)
    /\ tasks' = [tasks EXCEPT ![id] =
                    [@ EXCEPT !.pc = "forecast",
                              !.current_pressure = physics_engine.pressure,
                              !.current_temperature = physics_engine.temperature]]
    /\ UNCHANGED <<physics_engine, model, scaler, last, log, nticks, plan,
                   elapsed, fc>>

\* STEP 2-3: the forecast returns a series or raises (-> 500)
SimulateForecast(id, forecast) ==
    /\ tasks[id].pc = "forecast"
    /\ Scheduled(tasks, id)
    /\ tasks' = [tasks EXCEPT ![id] =
                    IF forecast.ok
                    THEN [@ EXCEPT !.pc = "decide",
                                   !.future_temperatures = forecast.temps]
                    ELSE [@ EXCEPT !.pc = "done", !.code = 500]]
    /\ UNCHANGED <<physics_engine, model, scaler, last, log, nticks, plan,
                   elapsed, fc>>

\* STEP 4: final_fire_input
SimulateDecide(id) ==
    /\ tasks[id].pc = "decide"
    /\ Scheduled(tasks, id)
    /\ tasks' = [tasks EXCEPT ![id] =
                    [@ EXCEPT !.pc = "u_fire",
                              !.final_fire_input =
                                  FinalFireInput(
                                      tasks[id].user_fire_intensity,
                                      tasks[id].ai_mode_enabled,
                                      FinalOf(tasks[id].future_temperatures))]]
    /\ UNCHANGED <<physics_engine, model, scaler, last, log, nticks, plan,
                   elapsed, fc>>

\* update(): self.fire_intensity = max(0.0, min(100.0, fire_intensity))
UpdateStoreFire(id) ==
    /\ tasks[id].pc = "u_fire"
    /\ Scheduled(tasks, id)
    /\ physics_engine' =
           [physics_engine EXCEPT
              !.fire_intensity = ClampFire(tasks[id].final_fire_input)]
    /\ tasks' = [tasks EXCEPT ![id] = [@ EXCEPT !.pc = "u_time"]]
    /\ UNCHANGED <<model, scaler, last, log, nticks, plan, elapsed, fc>>

\* update(): dt, last_update_time, steam_generation_rate
UpdateReadClock(id, dt) ==
    /\ tasks[id].pc = "u_time"
    /\ Scheduled(tasks, id)
    /\ dt >= elapsed
    /\ elapsed' = 0
    /\ tasks' = [tasks EXCEPT ![id] =
                    [@ EXCEPT !.pc = "u_level_add",
                              !.dt = dt,
                              !.steam_generation_rate =
                                  SteamRate(physics_engine.fire_intensity)]]
    /\ UNCHANGED <<physics_engine, model, scaler, last, log, nticks, plan, fc>>

\* update(): self.water_level += net_water_change
UpdateAddLevel(id) ==
    /\ tasks[id].pc = "u_level_add"
    /\ Scheduled(tasks, id)
    /\ physics_engine' =
           [physics_engine EXCEPT
              !.water_level =
                  @ + NetWaterChange(tasks[id].steam_generation_rate,
                                     tasks[id].dt)]
    /\ tasks' = [tasks EXCEPT ![id] = [@ EXCEPT !.pc = "u_level_clamp"]]
    /\ UNCHANGED <<model, scaler, last, log, nticks, plan, elapsed, fc>>

\* update(): self.water_level = max(0.0, min(100.0, self.water_level))
UpdateClampLevel(id) ==
    /\ tasks[id].pc = "u_level_clamp"
    /\ Scheduled(tasks, id)
    /\ physics_engine' =
           [physics_engine EXCEPT !.water_level = ClampLevel(@)]
    /\ tasks' = [tasks EXCEPT ![id] = [@ EXCEPT !.pc = "u_pressure_add"]]
    /\ UNCHANGED <<model, scaler, last, log, nticks, plan, elapsed, fc>>

\* update(): self.pressure += net_pressure_change
UpdateAddPressure(id) ==
    /\ tasks[id].pc = "u_pressure_add"
    /\ Scheduled(tasks, id)
    /\ physics_engine' =
           [physics_engine EXCEPT
              !.pressure =
                  @ + NetPressureChange(@, tasks[id].steam_generation_rate,
                                        tasks[id].dt)]
    /\ tasks' = [tasks EXCEPT ![id] = [@ EXCEPT !.pc = "u_pressure_clamp"]]
    /\ UNCHANGED <<model, scaler, last, log, nticks, plan, elapsed, fc>>

\* update(): self.pressure = max(0.0, min(self.MAX_PRESSURE, self.pressure))
UpdateClampPressure(id) ==
    /\ tasks[id].pc = "u_pressure_clamp"
    /\ Scheduled(tasks, id)
    /\ physics_engine' =
           [physics_engine EXCEPT !.pressure = ClampPressure(@)]
    /\ tasks' = [tasks EXCEPT ![id] = [@ EXCEPT !.pc = "u_temperature"]]
    /\ UNCHANGED <<model, scaler, last, log, nticks, plan, elapsed, fc>>

\* update(): STEP 4, self.temperature
UpdateTemperature(id) ==
    /\ tasks[id].pc = "u_temperature"
    /\ Scheduled(tasks, id)
    /\ physics_engine' =
           [physics_engine EXCEPT
              !.temperature = Temperature(physics_engine.water_level,
                                          physics_engine.pressure)]
    /\ tasks' = [tasks EXCEPT ![id] = [@ EXCEPT !.pc = "u_alarms"]]
    /\ UNCHANGED <<model, scaler, last, log, nticks, plan, elapsed, fc>>

\* update(): self.alarm_messages = []
UpdateClearAlarms(id) ==
    /\ tasks[id].pc = "u_alarms"
    /\ Scheduled(tasks, id)
    /\ physics_engine' = [physics_engine EXCEPT !.alarm_messages = << >>]
    /\ tasks' = [tasks EXCEPT ![id] = [@ EXCEPT !.pc = "u_status"]]
    /\ UNCHANGED <<model, scaler, last, log, nticks, plan, elapsed, fc>>

\* update(): the cascade, self.status and the appended messages
UpdateClassify(id) ==
    /\ tasks[id].pc = "u_status"
    /\ Scheduled(tasks, id)
    /\ physics_engine' =
           [physics_engine EXCEPT
              !.status = Classify(physics_engine.water_level,
                                  physics_engine.pressure),
              !.alarm_messages = @ \o Alarms(physics_engine.water_level,
                                             physics_engine.pressure)]
    /\ tasks' = [tasks EXCEPT ![id] = [@ EXCEPT !.pc = "u_return"]]
    /\ UNCHANGED <<model, scaler, last, log, nticks, plan, elapsed, fc>>

\* update(): STEP 6, the state dict, the history, return
UpdateReturn(id) ==
    /\ tasks[id].pc = "u_return"
    /\ Scheduled(tasks, id)
    /\ LET state == StateDict(physics_engine.water_level,
                              physics_engine.pressure,
                              physics_engine.temperature,
                              physics_engine.fire_intensity,
                              tasks[id].steam_generation_rate,
                              physics_engine.status,
                              physics_engine.alarm_messages)
       IN  /\ physics_engine' =
                  [physics_engine EXCEPT !.history = HistoryAppend(@, state)]
           /\ log' = Append(log, state)
    /\ nticks' = nticks + 1
    /\ tasks' = [tasks EXCEPT ![id] =
                    [@ EXCEPT !.pc = "respond", !.order = nticks + 1]]
    /\ UNCHANGED <<model, scaler, last, plan, elapsed, fc>>

\* STEP 6: return SimulationResponse(...)
SimulateRespond(id) ==
    /\ tasks[id].pc = "respond"
    /\ Scheduled(tasks, id)
    /\ tasks' = [tasks EXCEPT ![id] = [@ EXCEPT !.pc = "done", !.code = 200]]
    /\ \E compensated \in BOOLEAN :
         last' = [ op   |-> "simulate",
                   code |-> 200,
                   body |-> SimulationResponse(log[tasks[id].order],
                                               tasks[id].user_fire_intensity,
                                               tasks[id].ai_mode_enabled,
                                               tasks[id].future_temperatures,
                                               compensated) ]
    /\ UNCHANGED <<physics_engine, model, scaler, log, nticks, plan,
                   elapsed, fc>>

\* get_current_state: try: ... physics_engine.get_state()
StateEnter(id) ==
    /\ tasks[id].kind = "state"
    /\ tasks[id].pc = "pending"
    /\ Scheduled(tasks, id)
    /\ tasks' = [tasks EXCEPT ![id] = [@ EXCEPT !.pc = "get", !.seen = Len(log)]]
    /\ UNCHANGED <<physics_engine, model, scaler, last, log, nticks, plan,
                   elapsed, fc>>

\* get_state(): the next entry of the dict display reads its field
StateReadField(id) ==
    /\ tasks[id].pc = "get"
    /\ Scheduled(tasks, id)
    /\ LET field == SnapshotFields[Len(tasks[id].snapshot) + 1]
           value == IF field \in {"status", "alarm_messages"}
                    THEN physics_engine[field]
                    ELSE Round2(physics_engine[field])
       IN  tasks' = [tasks EXCEPT ![id] =
                       [@ EXCEPT !.snapshot = Append(@, value),
                                 !.pc = IF Len(tasks[id].snapshot) + 1
                                             = Len(SnapshotFields)
                                        THEN "g_return" ELSE "get"]]
    /\ UNCHANGED <<physics_engine, model, scaler, last, log, nticks, plan,
                   elapsed, fc>>

\* get_current_state: return {"status": "success", "state": ...}
StateRespond(id) ==
    /\ tasks[id].pc = "g_return"
    /\ Scheduled(tasks, id)
    /\ tasks' = [tasks EXCEPT ![id] =
                    [@ EXCEPT !.pc = "done", !.code = 200, !.order = Len(log)]]
    /\ last' = [op |-> "get_state", code |-> 200, ret |-> tasks[id].snapshot]
    /\ UNCHANGED <<physics_engine, model, scaler, log, nticks, plan,
                   elapsed, fc>>

NextServer ==
    \/ \E f \in ServerFires, ai \in BOOLEAN : Arrive("simulate", f, ai)
    \/ Arrive("state", 0, FALSE)
    \/ \E id \in 1..Len(tasks) :
          \/ SimulateEnter(id)
          \/ SimulateRead(id)
          \/ \E fo \in ServerForecasts : SimulateForecast(id, fo)
          \/ SimulateDecide(id)
          \/ UpdateStoreFire(id)
          \/ \E dt \in ServerElapsed : UpdateReadClock(id, dt)
          \/ UpdateAddLevel(id)
          \/ UpdateClampLevel(id)
          \/ UpdateAddPressure(id)
          \/ UpdateClampPressure(id)
          \/ UpdateTemperature(id)
          \/ UpdateClearAlarms(id)
          \/ UpdateClassify(id)
          \/ UpdateReturn(id)
          \/ SimulateRespond(id)
          \/ StateEnter(id)
          \/ StateReadField(id)
          \/ StateRespond(id)

SpecServer == InitServer /\ [][NextServer]_vars

-----------------------------------------------------------------------------
(* Properties *)

\* C1 (SpecPhysics).  After one or more ticks, whatever the control inputs
\* and the elapsed times, 0 <= water_level <= 100 and
\* 0 <= pressure <= MAX_PRESSURE.
C1_LevelAndPressureBounded ==
    log # << >> =>
        /\ 0 <= physics_engine.water_level
        /\ physics_engine.water_level <= Fx(100)
        /\ 0 <= physics_engine.pressure
        /\ physics_engine.pressure <= Fx(MAX_PRESSURE)

\* A tick has pinned the level at its floor and the pressure at its ceiling.
C1_Witness ==
    /\ last.op = "update"
    /\ physics_engine.fire_intensity = Fx(100)
    /\ physics_engine.water_level = 0
    /\ physics_engine.pressure = Fx(MAX_PRESSURE)

\* C2 (SpecPhysics).  After every tick, status (in the object and in the
\* returned dict) is the first match of the cascade over the post-tick
\* water_level and pressure: pressure > 20, then level < 10, then level > 90,
\* then level < 20 or pressure > 18, else NORMAL.
C2_StatusIsFirstMatch ==
    last.op = "update" =>
        LET w == physics_engine.water_level
            p == physics_engine.pressure
            expected ==
                CASE p > Fx(20) -> "CRITICAL_PRESSURE"
                  [] p <= Fx(20) /\ w < Fx(10) -> "LOW_LEVEL_TRIP"
                  [] p <= Fx(20) /\ w > Fx(90) -> "HIGH_LEVEL_TRIP"
                  [] p <= Fx(20) /\ w >= Fx(10) /\ w <= Fx(90)
                       /\ (w < Fx(20) \/ p > Fx(18)) -> "WARNING"
                  [] OTHER -> "NORMAL"
        IN  /\ physics_engine.status = expected
            /\ last.ret.status = expected

\* A tick ended with pressure > 20 and water_level < 10, and reported
\* CRITICAL_PRESSURE.
C2_Witness ==
    /\ last.op = "update"
    /\ physics_engine.pressure > Fx(20)
    /\ physics_engine.water_level < Fx(10)
    /\ physics_engine.status = "CRITICAL_PRESSURE"

\* C3 (Spec).  In a successful step with ai_mode_enabled, the supervisor
\* intervenes iff the final forecast value is strictly above 560.0; without
\* intervention the tick gets the requested input, with intervention it gets
\* min(requested, 60.0).
C3_InterveneIffAboveThreshold ==
    (last.op = "simulate" /\ last.code = 200 /\ last.args.ai_mode_enabled) =>
        LET requested  == last.args.user_fire_intensity
            effective  == last.body.ai_data.actual_system_input
            intervened == last.body.ai_data.intervention_active
        IN  /\ intervened <=> (last.final > Fx(560))
            /\ ~intervened => effective = requested
            /\ intervened => effective = Min(requested, Fx(60))
            /\ physics_engine.fire_intensity = effective

\* The forecast ended at 560.1, the request was 100 and the tick got 60.
C3_Witness ==
    /\ last.op = "simulate"
    /\ last.code = 200
    /\ last.args.ai_mode_enabled
    /\ last.final = Dec(5601, 1)
    /\ last.args.user_fire_intensity = Fx(100)
    /\ last.body.ai_data.intervention_active
    /\ physics_engine.fire_intensity = Fx(60)

\* C4 (Spec).  In a successful step with ai_mode_enabled = false, whatever
\* the forecast, the tick gets the requested input and the step reports no
\* intervention; the forecast is still part of the response.
C4_DisabledNeverIntervenes ==
    (last.op = "simulate" /\ last.code = 200 /\ ~last.args.ai_mode_enabled) =>
        /\ last.forecast = "returned"
        /\ last.body.ai_data.predicted_temp_final = Round2(last.final)
        /\ last.body.ai_data.actual_system_input = last.args.user_fire_intensity
        /\ last.body.ai_data.intervention_active = FALSE
        /\ physics_engine.fire_intensity = last.args.user_fire_intensity

\* The forecast ended above the threshold, the supervisor was off and the
\* tick got the requested 100.
C4_Witness ==
    /\ last.op = "simulate"
    /\ last.code = 200
    /\ ~last.args.ai_mode_enabled
    /\ last.final > Fx(DANGER_TEMP_THRESHOLD)
    /\ last.args.user_fire_intensity = Fx(100)
    /\ physics_engine.fire_intensity = Fx(100)

\* C5 (Spec).  A step made while the model or the scaler is not loaded, or
\* whose forecast raises, answers with an error code and leaves the boiler
\* object, history included, as it was.
C5_FailedStepLeavesState ==
    [][ (/\ last'.op = "simulate"
         /\ \/ model = "None"
            \/ scaler = "None"
            \/ last'.forecast = "raised")
        => /\ last'.code \in {422, 500, 503}
           /\ physics_engine' = physics_engine
           /\ log' = log
           /\ nticks' = nticks ]_vars

\* A step failed on its forecast after an earlier step had ticked the boiler.
C5_Witness ==
    /\ last.op = "simulate"
    /\ last.code = 500
    /\ last.forecast = "raised"
    /\ Len(physics_engine.history) = 1
    /\ physics_engine.status = "CRITICAL_PRESSURE"

\* C6 (SpecPhysics).  Once status is a trip state it stays a trip state over
\* every following tick, until reset is called.
C6_TripLatched ==
    [][ (physics_engine.status \in TripStates /\ last'.op = "update")
        => physics_engine'.status \in TripStates ]_vars

\* C7 (SpecTicks).  From water_level 50 and pressure 10, ticks with control
\* input 100 at the nominal timestep have, within 200 ticks, produced a
\* state with water_level < 10, status LOW_LEVEL_TRIP and an alarm about the
\* level trip.
C7_Test1TripsOnLowLevel ==
    (plan = FullFirePlan /\ Len(log) >= TEST1_TICKS) =>
        \E i \in 1..Len(log) :
            /\ log[i].water_level < Fx(MIN_WATER_LEVEL)
            /\ log[i].status = "LOW_LEVEL_TRIP"
            /\ \E j \in 1..Len(log[i].alarms) :
                   log[i].alarms[j].text = "TRIP: Drum level - Boiler shutdown"

\* C8 (SpecTicks).  From water_level 50 and pressure 10, each of 100 ticks
\* with control input 30 at the nominal timestep ends with status NORMAL.
C8_Test2StaysNormal ==
    (plan = SteadyPlan /\ Len(log) >= 1 /\ Len(log) <= TEST2_TICKS) =>
        /\ physics_engine.status = "NORMAL"
        /\ log[Len(log)].status = "NORMAL"

\* C9 as stated (SpecPhysics).  get_state called right after
\* reset(water_level, pressure, temperature) returns exactly the supplied
\* three values, fire_intensity 0 and no alarms, and the history is empty.
C9_ResetReturnsSupplied ==
    [][ (last.op = "reset" /\ last'.op = "get_state")
        => /\ last'.ret.water_level = last.args[1]
           /\ last'.ret.pressure = last.args[2]
           /\ last'.ret.temperature = last.args[3]
           /\ last'.ret.fire_intensity = 0
           /\ last'.ret.alarms = << >>
           /\ physics_engine'.history = << >> ]_vars

\* x is v to the nearest hundredth
NearestHundredth(x, v) ==
    /\ x % (U \div 100) = 0
    /\ 2 * (x - v) <= U \div 100
    /\ 2 * (v - x) <= U \div 100

\* C9 as amended (SpecPhysics).  get_state called right after reset returns
\* the supplied water_level, pressure and temperature rounded to two
\* decimals, fire_intensity 0 and no alarms, and the history
\* is empty.
C9_ResetReturnsRounded ==
    [][ (last.op = "reset" /\ last'.op = "get_state")
        => /\ NearestHundredth(last'.ret.water_level, last.args[1])
           /\ NearestHundredth(last'.ret.pressure, last.args[2])
           /\ NearestHundredth(last'.ret.temperature, last.args[3])
           /\ last'.ret.fire_intensity = 0
           /\ last'.ret.alarms = << >>
           /\ physics_engine'.history = << >> ]_vars

\* get_state has answered after a reset to (12.346, 18, 555.556) that
\* followed at least one tick: it reports 12.35 and 555.56.
C9_Witness ==
    /\ last.op = "get_state"
    /\ nticks > 0
    /\ log = << >>
    /\ physics_engine.water_level = Dec(12346, 3)
    /\ physics_engine.history = << >>
    /\ last.ret.water_level = Dec(1235, 2)
    /\ last.ret.temperature = Dec(55556, 2)

\* C10 (SpecTicks).  After n ticks since construction or the last reset, the
\* history holds the dicts returned by the last min(n, 1000) ticks, oldest
\* first.
C10_HistoryIsLastThousand ==
    LET n == Len(log)
        k == Min(n, 1000)
    IN  /\ Len(physics_engine.history) = k
        /\ \A i \in 1..k : physics_engine.history[i] = log[n - k + i]

\* After a reset, more than 1000 ticks of the sweep have run: the first two
\* dicts returned since the reset are gone and the oldest one kept differs
\* from them.
C10_Witness ==
    /\ plan = SweepPlan
    /\ nticks = Len(log) + 1
    /\ Len(log) = HISTORY_CAPACITY + 2
    /\ Len(physics_engine.history) = HISTORY_CAPACITY
    /\ physics_engine.history[1] = log[3]
    /\ physics_engine.history[1] # log[1]
    /\ physics_engine.history[1] # log[2]

\* C12 (SpecPhysics).  A call of get_state leaves the whole object as it was:
\* water_level, pressure, temperature, fire_intensity, status, alarms and
\* history keep their values, and last_update_time is not touched, so the
\* time since it is still the time at which the call was made and the next
\* tick sees the same state and the same elapsed time as without the call.
C12_GetStateChangesNothing ==
    [][ last'.op = "get_state"
        => /\ physics_engine'.water_level = physics_engine.water_level
           /\ physics_engine'.pressure = physics_engine.pressure
           /\ physics_engine'.temperature = physics_engine.temperature
           /\ physics_engine'.fire_intensity = physics_engine.fire_intensity
           /\ physics_engine'.status = physics_engine.status
           /\ physics_engine'.alarm_messages = physics_engine.alarm_messages
           /\ physics_engine'.history = physics_engine.history
           /\ elapsed' = last'.at
           /\ elapsed' >= elapsed ]_vars

\* get_state has answered one interval after the second tick, the boiler
\* being in an alarm state with two history entries.
C12_Witness ==
    /\ last.op = "get_state"
    /\ last.at = 1
    /\ elapsed = 1
    /\ Len(physics_engine.history) = 2
    /\ physics_engine.alarm_messages # << >>
    /\ last.ret.alarms = physics_engine.alarm_messages

\* C13 (SpecPhysics).  update() accepts every control input, in or out of
\* [0, 100], and computes with clamp(input, 0, 100): the stored and the
\* returned fire_intensity, the steam rate, the level and the pressure of
\* the tick are those of the clamped input; 0 <= fire_intensity <= 100 in
\* every reachable state (after construction, ticks and resets).
C13_FireClampedNeverRejected ==
    /\ [](/\ 0 <= physics_engine.fire_intensity
          /\ physics_engine.fire_intensity <= Fx(100)
          /\ nticks < MaxTicks =>
                \A f \in {Fx(0 - 10), Fx(120)} : ENABLED Update(f, 12))
    /\ [][ (last'.op = "update" /\ nticks' = nticks + 1)
            => LET f     == last'.args[1]
                   c     == IF f < 0 THEN 0
                            ELSE IF f > Fx(100) THEN Fx(100) ELSE f
                   steam == c \div 2
                   dt    == last'.dt
               IN  /\ physics_engine'.fire_intensity = c
                   /\ last'.ret.fire_intensity = c
                   /\ last'.ret.steam_generation = steam
                   /\ physics_engine'.water_level =
                          ClampLevel(physics_engine.water_level
                                     + (Fx(15) - steam) * dt)
                   /\ physics_engine'.pressure =
                          ClampPressure(physics_engine.pressure + steam * dt
                                        - (physics_engine.pressure * dt) \div 10)
          ]_vars

\* update(120) has run one interval after construction at 50 / 10: the fire
\* stored is 100 and the level fell by (15 - 50) to 15.
C13_Witness ==
    /\ last.op = "update"
    /\ last.args[1] = Fx(120)
    /\ last.dt = 1
    /\ physics_engine.fire_intensity = Fx(100)
    /\ last.ret.steam_generation = Fx(50)
    /\ physics_engine.water_level = Fx(15)

\* C16 (SpecPhysics).  In every reachable state, the states right after
\* construction and right after reset included, status is the cascade
\* classification of the current water_level and pressure.
C16_StatusIsClassification ==
    physics_engine.status =
        Classify(physics_engine.water_level, physics_engine.pressure)

\* C17 (SpecPhysics).  In every reachable state alarms is empty iff status
\* is NORMAL.  After a tick the alarms are those of that tick alone: one
\* message for a trip or critical status, and for WARNING one message per
\* sub-condition that holds (water_level < 20, then pressure > 18), each
\* carrying the current value; the returned dict has the same alarms.
C17_AlarmsMatchStatus ==
    LET w == physics_engine.water_level
        p == physics_engine.pressure
        a == physics_engine.alarm_messages
        texts == [i \in 1..Len(a) |-> a[i].text]
        low  == w < Fx(20)
        high == p > Fx(18)
    IN  /\ (a = << >>) <=> (physics_engine.status = "NORMAL")
        /\ last.op = "update" =>
              /\ last.ret.alarms = a
              /\ physics_engine.status # "NORMAL" => Len(a) >= 1
              /\ physics_engine.status \in TripStates => Len(a) = 1
              /\ physics_engine.status = "WARNING" =>
                    /\ low /\ high =>
                          texts = << "WARNING: Low drum level",
                                     "WARNING: High pressure" >>
                    /\ low /\ ~high => texts = << "WARNING: Low drum level" >>
                    /\ ~low /\ high => texts = << "WARNING: High pressure" >>
              /\ \A i \in 1..Len(a) :
                    a[i].value \in { RoundTo(w, 1), RoundTo(p, 1) }

\* A tick ended in WARNING with both sub-conditions (level 10, pressure 19)
\* and two messages, low level first.
C17_Witness ==
    /\ last.op = "update"
    /\ physics_engine.status = "WARNING"
    /\ physics_engine.water_level < Fx(20)
    /\ physics_engine.pressure > Fx(18)
    /\ Len(physics_engine.alarm_messages) = 2
    /\ physics_engine.alarm_messages[1].text = "WARNING: Low drum level"
    /\ physics_engine.alarm_messages[2].text = "WARNING: High pressure"

\* C18 (Spec).  A successful step changes the boiler by exactly one tick,
\* made from the state the step found (the state its forecast was seeded
\* from) with the supervisor's effective input: the object after the step is
\* update(object before, effective input), its history is one entry longer,
\* its fire_intensity is the effective input, and the step reports that same
\* value as the actual system input together with the post-tick state.
C18_OneTickWithEffectiveInput ==
    [][ (last'.op = "simulate" /\ last'.code = 200 /\ nticks' = nticks + 1)
        => LET requested == last'.args.user_fire_intensity
               effective ==
                   IF last'.args.ai_mode_enabled /\ last'.temps[30] > Fx(560)
                   THEN Min(requested, Fx(60))
                   ELSE requested
           IN  /\ last'.seed.pressure = physics_engine.pressure
               /\ last'.seed.current_temp = physics_engine.temperature
               /\ physics_engine' = update(physics_engine, effective, last'.dt)
               /\ Len(physics_engine'.history) = Len(physics_engine.history) + 1
               /\ physics_engine'.fire_intensity = effective
               /\ last'.body.ai_data.actual_system_input = effective
               /\ last'.body.visual_state.fire_intensity = effective
               /\ last'.body.ai_data.original_user_input = requested
               /\ last'.body.visual_state.pressure =
                      Round2(physics_engine'.pressure)
               /\ last'.body.status = physics_engine'.status ]_vars

\* The second step of a session asked for 100, the supervisor cut it to 60,
\* and the tick was made with 60.
C18_Witness ==
    /\ last.op = "simulate"
    /\ last.code = 200
    /\ last.args.user_fire_intensity = Fx(100)
    /\ last.body.ai_data.intervention_active
    /\ last.body.ai_data.actual_system_input = Fx(60)
    /\ physics_engine.fire_intensity = Fx(60)
    /\ Len(physics_engine.history) = 2
    /\ physics_engine.history[2].steam_generation = Fx(30)

\* C19 (Spec).  The decision of a successful step is a function of the
\* request and of the last value of the forecast alone: any forecast with the
\* same last value gives the same effective input and the same intervention
\* flag, and a forecast that exceeds 560 on the way but ends at or below it
\* causes no intervention.
C19_OnlyFinalValueDecides ==
    (last.op = "simulate" /\ last.code = 200) =>
        LET requested == last.args.user_fire_intensity
            ai        == last.args.ai_mode_enabled
            t         == last.temps
        IN  /\ \A g \in Forecasts :
                  (g.ok /\ g.temps[FORECAST_STEPS] = t[FORECAST_STEPS]) =>
                      LET r == SimulationResponse(log[Len(log)], requested,
                                                  ai, g.temps, FALSE)
                      IN  /\ r.ai_data.actual_system_input =
                                 last.body.ai_data.actual_system_input
                          /\ r.ai_data.intervention_active =
                                 last.body.ai_data.intervention_active
            /\ ((\E i \in 1..(FORECAST_STEPS - 1) : t[i] > Fx(560))
                 /\ t[FORECAST_STEPS] <= Fx(560)) =>
                    /\ ~last.body.ai_data.intervention_active
                    /\ last.body.ai_data.actual_system_input = requested
                    /\ physics_engine.fire_intensity = requested

\* With the supervisor on, a forecast at 600 for 29 steps and 550 at step 30
\* let the requested 100 through.
C19_Witness ==
    /\ last.op = "simulate"
    /\ last.code = 200
    /\ last.args.ai_mode_enabled
    /\ last.temps[1] = Fx(600)
    /\ last.temps[FORECAST_STEPS] = Fx(550)
    /\ last.args.user_fire_intensity = Fx(100)
    /\ ~last.body.ai_data.intervention_active
    /\ physics_engine.fire_intensity = Fx(100)

\* C20 (Spec).  Every step that reaches its forecast, with the supervisor on
\* or off, seeds it with valve = 50, pressure = the boiler's pressure before
\* the step's tick, flow = 2 x the requested input (not the effective one)
\* and target = the boiler's temperature before the tick.
C20_SeedFromStateBeforeTick ==
    [][ (last'.op = "simulate" /\ last'.forecast \in {"raised", "returned"})
        => /\ last'.seed.valve = Fx(50)
           /\ last'.seed.pressure = physics_engine.pressure
           /\ last'.seed.flow = 2 * last'.args.user_fire_intensity
           /\ last'.seed.current_temp = physics_engine.temperature ]_vars

\* A step with the supervisor off, made after an earlier tick had moved the
\* pressure and the temperature: the seed holds the values before this
\* step's tick, and flow 60 for the requested 30.
C20_Witness ==
    /\ last.op = "simulate"
    /\ last.code = 200
    /\ ~last.args.ai_mode_enabled
    /\ last.args.user_fire_intensity = Fx(30)
    /\ last.seed.flow = Fx(60)
    /\ Len(log) = 2
    /\ last.seed.pressure = log[1].pressure
    /\ last.seed.pressure # Fx(10)
    /\ last.seed.pressure # physics_engine.pressure
    /\ last.seed.current_temp > Fx(540)

\* C11 (SpecForecast).  With an affine per-feature scaler and a Predictor
\* that returns the normalized temperature of the last row of its window, a
\* forecast seeded with (controls, current_temp) over H steps returns exactly
\* H temperatures, each equal to current_temp.
C11_StubForecastReturnsSeed ==
    (fc.pc = "returned" /\ fc.predictor = "last_target") =>
        /\ Len(fc.temperatures) = fc.steps
        /\ \A i \in 1..fc.steps : fc.temperatures[i] = fc.seed[4]

\* A 30-step forecast seeded at 560.1 through the fitted scaler has
\* returned; its rows were normalized to 1.768 in the temperature slot.
C11_Witness ==
    /\ fc.pc = "returned"
    /\ fc.predictor = "last_target"
    /\ fc.scaler = FittedScaler
    /\ fc.steps = FORECAST_STEPS
    /\ fc.seed[4] = Dec(5601, 1)
    /\ fc.initial_sequence[1][4] = Dec(1768, 3)
    /\ Len(fc.temperatures) = FORECAST_STEPS
    /\ fc.temperatures[FORECAST_STEPS] = Dec(5601, 1)

\* the boiler after the first k completed ticks, applied one at a time in
\* the order in which they returned
RECURSIVE Replay(_)
Replay(k) ==
    IF k = 0 THEN NewEngine(Fx(50), Fx(10), Fx(540))
    ELSE LET i == CHOOSE j \in 1..Len(tasks) :
                      tasks[j].kind = "simulate" /\ tasks[j].order = k
         IN  update(Replay(k - 1), tasks[i].final_fire_input, tasks[i].dt)

\* C14 (SpecServer).  Whatever requests are waiting, at most one handler
\* is inside update() at a time, and whenever none is, the boiler (history
\* included) is what the completed ticks give when applied one at a time in
\* the order they returned: no update is lost or mixed with another.
C14_StepsSerialized ==
    LET inflight == { i \in 1..Len(tasks) : tasks[i].pc \in TickInFlight }
    IN  /\ Cardinality(inflight) <= 1
        /\ inflight = {} =>
              /\ physics_engine = Replay(nticks)
              /\ Len(log) = nticks
              /\ \A i \in 1..Len(tasks) :
                    (tasks[i].kind = "simulate" /\ tasks[i].order > 0) =>
                        log[tasks[i].order] =
                            UpdateState(Replay(tasks[i].order - 1),
                                        tasks[i].final_fire_input, tasks[i].dt)

\* Two /simulate requests waited together: the one that arrived second was
\* handled first, and both ticks are in the history.
C14_Witness ==
    /\ Len(tasks) = 2
    /\ tasks[1].kind = "simulate" /\ tasks[1].pc = "done" /\ tasks[1].code = 200
    /\ tasks[2].kind = "simulate" /\ tasks[2].pc = "done" /\ tasks[2].code = 200
    /\ tasks[2].order = 1
    /\ tasks[1].order = 2
    /\ tasks[1].final_fire_input # tasks[2].final_fire_input
    /\ tasks[2].dt = 1
    /\ Len(physics_engine.history) = 2

\* the complete state published by the k-th tick (k = 0: by construction),
\* as get_state() displays it
Published(k) ==
    IF k = 0
    THEN LET st == get_state(NewEngine(Fx(50), Fx(10), Fx(540)))
         IN  << st.water_level, st.pressure, st.temperature,
                st.fire_intensity, st.status, st.alarms >>
    ELSE << log[k].water_level, log[k].pressure, log[k].temperature,
            log[k].fire_intensity, log[k].status, log[k].alarms >>

\* C15 (SpecServer).  The snapshot a GET /state returns is a complete state
\* of the boiler: the one published by the last tick that had returned when
\* the handler was entered, or the one published by the last tick that had
\* returned when it answered; never fields of two different states.
C15_SnapshotIsWhole ==
    \A i \in 1..Len(tasks) :
        (tasks[i].kind = "state" /\ tasks[i].pc = "done") =>
            \/ tasks[i].snapshot = Published(tasks[i].seen)
            \/ tasks[i].snapshot = Published(tasks[i].order)

\* A GET /state waited while a /simulate that arrived after it was handled:
\* its snapshot is the state after that tick (level 15, not 50).
C15_Witness ==
    /\ Len(tasks) = 2
    /\ tasks[1].kind = "state" /\ tasks[1].pc = "done"
    /\ tasks[2].kind = "simulate" /\ tasks[2].pc = "done" /\ tasks[2].code = 200
    /\ tasks[1].seen = 1
    /\ tasks[1].snapshot[1] = Fx(15)
    /\ tasks[1].snapshot[5] = "CRITICAL_PRESSURE"
    /\ tasks[1].snapshot = Published(1)

-----------------------------------------------------------------------------
(* C21: once a tick has run since construction or the last reset, the      *)
(* stored temperature is the estimate of the stored pressure and water     *)
(* level, 540 + (pressure / 25) * 60 plus (30 - water_level) * 2 below a   *)
(* level of 30, and so lies in [540, 660] whatever temperature the object  *)
(* was built or reset with.                                                *)
C21_TemperatureDerivedEachTick ==
    Len(log) > 0 =>
        LET e         == physics_engine
            superheat == IF e.water_level < 30 * U
                         THEN (30 * U - e.water_level) * 2
                         ELSE 0
        IN  /\ (e.temperature - 540 * U - superheat) * 25 = e.pressure * 60
            /\ e.temperature >= 540 * U
            /\ e.temperature <= 660 * U

\* a tick has run the drum dry at full pressure (from level 5, whatever
\* temperature came with it): the estimate is at its upper limit
C21_Witness ==
    /\ Len(log) > 0
    /\ last.op = "update"
    /\ physics_engine.water_level = 0
    /\ physics_engine.pressure = 25 * U
    /\ physics_engine.temperature = 660 * U

-----------------------------------------------------------------------------
(* C22: throughout a forecast call the window has 60 rows of 4 features;   *)
(* each pass of the loop drops row 0, moves the other 59 rows one place    *)
(* towards the front in order, and puts at the end the row made of the     *)
(* normalized held-constant controls and the latest normalized prediction; *)
(* the initial window handed to the call is never modified.                *)
C22_WindowSlides ==
    /\ [](fc.pc \in {"loop", "returned"} =>
            /\ DOMAIN fc.current_sequence = 1..60
            /\ \A i \in 1..60 : DOMAIN fc.current_sequence[i] = 1..4
            /\ DOMAIN fc.initial_sequence = 1..60)
    /\ [][ (fc.pc = "loop" /\ fc'.pc = "loop") =>
            LET n      == Len(fc'.predictions)
                old    == fc.current_sequence
                new    == fc'.current_sequence
                tenths == [j \in 1..3 |-> fc.scaler.scale[j] \div (U \div 10)]
            IN  /\ n = Len(fc.predictions) + 1
                /\ \A i \in 1..59 : new[i] = old[i + 1]
                /\ \A j \in 1..3 :
                      new[60][j] * tenths[j]
                          = (fc.seed[j] - fc.scaler.mean[j]) * 10
                /\ new[60][4] = fc'.predictions[n]
                /\ fc'.initial_sequence = fc.initial_sequence ]_vars

\* two passes of a forecast whose predictions rise: the two newest rows
\* and the rows of the initial window are three different rows, and the
\* initial window still holds 60 copies of its first row
C22_Witness ==
    /\ fc.pc = "loop"
    /\ Len(fc.predictions) = 2
    /\ fc.current_sequence[60] # fc.current_sequence[59]
    /\ fc.current_sequence[59] # fc.current_sequence[58]
    /\ fc.current_sequence[58] = fc.initial_sequence[60]
    /\ fc.current_sequence # fc.initial_sequence
    /\ \A i \in 1..60 : fc.initial_sequence[i] = fc.initial_sequence[1]

-----------------------------------------------------------------------------
(* C23: a forecast with horizon H invokes the predictor H times, one after *)
(* the other, and returns H values in step-ahead order: the i-th value     *)
(* returned is the denormalized result of the i-th invocation, and the     *)
(* window of that invocation carries the results of the invocations before *)
(* it, oldest first, in its last i - 1 temperature slots.                  *)
C23_OneInvocationPerStep ==
    /\ fc.pc \in {"loop", "returned"} =>
          /\ Len(fc.calls) <= fc.steps
          /\ \A i \in 1..Len(fc.calls) : \A k \in 1..(i - 1) :
                fc.calls[i].window[60 - (i - 1) + k][4] = fc.calls[k].result
    /\ fc.pc = "returned" =>
          /\ Len(fc.calls) = fc.steps
          /\ Len(fc.temperatures) = fc.steps
          /\ \A i \in 1..fc.steps :
                fc.temperatures[i] =
                    (fc.calls[i].result
                        * (fc.scaler.scale[4] \div (U \div 10))) \div 10
                    + fc.scaler.mean[4]

\* a forecast of 30 steps has returned, its predictions rising from one
\* invocation to the next
C23_Witness ==
    /\ fc.pc = "returned"
    /\ fc.steps = 30
    /\ Len(fc.calls) = 30
    /\ \A i \in 1..29 : fc.calls[i].result < fc.calls[i + 1].result
    /\ \A i \in 1..29 : fc.temperatures[i] < fc.temperatures[i + 1]

-----------------------------------------------------------------------------
(* C24: a step whose forecast holds a value that is not finite (nan or an  *)
(* infinity) fails as a dependency-unavailable condition (503) and leaves  *)
(* the boiler as it was: no tick is applied on such a forecast, and no     *)
(* non-finite value is stored in the boiler.                               *)
C24_NonFiniteForecastFailsStep ==
    [][ (/\ last'.op = "simulate"
         /\ last'.forecast = "returned"
         /\ \E i \in 1..Len(last'.temps) : ~IsFinite(last'.temps[i]))
        => /\ last'.code = 503
           /\ physics_engine' = physics_engine
           /\ log' = log
           /\ IsFinite(physics_engine'.water_level)
           /\ IsFinite(physics_engine'.pressure)
           /\ IsFinite(physics_engine'.temperature)
           /\ IsFinite(physics_engine'.fire_intensity) ]_vars

-----------------------------------------------------------------------------
(* C25: the supervisor can only lower the control input.  In every step    *)
(* that reaches the tick, effective_input <= requested_input; intervened   *)
(* implies ai_mode_enabled, a final forecast value above 560.0 and         *)
(* effective_input <= 60.0; not intervened implies effective_input =       *)
(* requested_input.  The effective input is the one reported and the one   *)
(* the tick stored.                                                        *)
C25_SupervisorOnlyLowers ==
    (last.op = "simulate" /\ last.forecast = "returned") =>
        LET requested  == last.args.user_fire_intensity
            effective  == last.body.ai_data.actual_system_input
            intervened == last.body.ai_data.intervention_active
            final      == last.temps[30]
        IN  /\ last.body.ai_data.original_user_input = requested
            /\ last.body.visual_state.fire_intensity = effective
            /\ physics_engine.fire_intensity = effective
            /\ effective <= requested
            /\ intervened =>
                  /\ last.args.ai_mode_enabled
                  /\ final # NaN
                  /\ final > 560 * U
                  /\ effective <= 60 * U
            /\ ~intervened => effective = requested

\* a request of 100 lowered to 60 on a forecast ending at 600
C25_Witness ==
    /\ last.op = "simulate"
    /\ last.forecast = "returned"
    /\ last.args.user_fire_intensity = 100 * U
    /\ last.temps[30] = 600 * U
    /\ last.body.ai_data.intervention_active
    /\ last.body.ai_data.actual_system_input = 60 * U
    /\ physics_engine.fire_intensity = 60 * U

=============================================================================
